---- MODULE Spec2Model ----
(***************************************************************************)
(* Model of the backtest engine (src/backtest-engine/src): order manager,  *)
(* brokerage, portfolio, data feed and the engine's event loop.            *)
(*                                                                         *)
(* f64 values are modelled as exact rationals <<n, d>> in lowest terms     *)
(* with d > 0; Option<T> is modelled as None (the empty tuple) or the      *)
(* value; HashMap iteration order and thread_rng draws are nondeterministic*)
(* choices.                                                                *)
(***************************************************************************)
EXTENDS Integers, Sequences, FiniteSets, TLC

VARIABLES
    config,          \* BacktestEngine.config
    data_feed,       \* BacktestEngine.data_feed
    portfolio,       \* BacktestEngine.portfolio
    brokerage,       \* BacktestEngine.brokerage
    order_manager,   \* BacktestEngine.order_manager
    current_prices,  \* BacktestEngine.current_prices
    current_time,    \* BacktestEngine.current_time
    bars_processed,  \* BacktestEngine.bars_processed
    running,         \* BacktestEngine.running
    pc,              \* position inside BacktestEngine::run
    market_events,   \* local `market_events` of run
    signal_map,      \* local `signal_map` of run
    hist             \* history of the calls made so far (observation only)

vars == <<config, data_feed, portfolio, brokerage, order_manager,
          current_prices, current_time, bars_processed, running, pc,
          market_events, signal_map, hist>>

engine_vars == <<config, data_feed, portfolio, brokerage, current_prices,
                 current_time, bars_processed, running, pc, market_events,
                 signal_map>>

----------------------------------------------------------------------------
(* Bounds of the model.                                                    *)

MaxOrders == 2      \* orders created per order-manager lifetime
MaxPending == 2     \* orders handed to the brokerage
MaxFills == 3       \* fills handed to the portfolio directly
MaxLoads == 2       \* load_bars calls on the data feed
MaxEventId == 6     \* market events a data feed hands out before a reset
MaxRuns == 2        \* runs recorded per behaviour
MaxTradeFills == 4  \* fills of one symbol handed to the portfolio
MaxPoints == 2      \* record_equity calls on the portfolio on its own
MaxCurve == 4       \* points of an equity curve handed to the calculator

----------------------------------------------------------------------------
(* Exact rational arithmetic standing in for f64.                          *)

None == <<>>

RECURSIVE GCD(_, _)
GCD(a, b) == IF b = 0 THEN a ELSE GCD(b, a % b)

Abs(n) == IF n < 0 THEN -n ELSE n

\* n/d with d > 0 after the division by g, the common factor of n and d
Reduce(n, d, g) ==
    IF d < 0 THEN <<(-n) \div g, (-d) \div g>> ELSE <<n \div g, d \div g>>

Q(n, d) == Reduce(n, d, GCD(Abs(n), Abs(d)))

Zero == <<0, 1>>
One == <<1, 1>>
QInt(n) == <<n, 1>>

\* The operations go through the least common denominator and cancel common
\* factors before multiplying, which keeps the intermediate integers small.
LCM(a, b) == (a \div GCD(a, b)) * b

\* the numerator of a - b over the common denominator l
Over(a, b, l) == a[1] * (l \div a[2]) - b[1] * (l \div b[2])

QAddOver(a, b, l) == Q(a[1] * (l \div a[2]) + b[1] * (l \div b[2]), l)
QAdd(a, b) == QAddOver(a, b, LCM(a[2], b[2]))
QNeg(a) == <<-a[1], a[2]>>
QSub(a, b) == QAdd(a, QNeg(b))
QMulCancel(a, b, g1, g2) ==
    Q((a[1] \div g1) * (b[1] \div g2), (a[2] \div g2) * (b[2] \div g1))
QMul(a, b) == QMulCancel(a, b, GCD(Abs(a[1]), b[2]), GCD(Abs(b[1]), a[2]))
QInv(a) == IF a[1] < 0 THEN <<-a[2], -a[1]>> ELSE <<a[2], a[1]>>
QDiv(a, b) == QMul(a, QInv(b))
QAbs(a) == <<Abs(a[1]), a[2]>>
QLt(a, b) == Over(a, b, LCM(a[2], b[2])) < 0
QLe(a, b) == Over(a, b, LCM(a[2], b[2])) <= 0
QGt(a, b) == QLt(b, a)
QGe(a, b) == QLe(b, a)

RECURSIVE QSum(_)
QSum(s) == IF s = <<>> THEN Zero ELSE QAdd(s[1], QSum(Tail(s)))

----------------------------------------------------------------------------
(* Small sequence helpers.                                                 *)

Range(s) == {s[i] : i \in DOMAIN s}

RECURSIVE Retain(_, _)
\* Vec::retain(|&id| id != x)
Retain(s, x) ==
    IF s = <<>> THEN <<>>
    ELSE IF s[1] = x THEN Retain(Tail(s), x)
         ELSE <<s[1]>> \o Retain(Tail(s), x)

Count(s, x) == Cardinality({i \in DOMAIN s : s[i] = x})

Perms(S) ==
    {p \in [1..Cardinality(S) -> S] : \A i, j \in DOMAIN p : i # j => p[i] # p[j]}

----------------------------------------------------------------------------
(* Inputs.                                                                 *)

Symbols == {"A", "B"}
SymRank == [A |-> 1, B |-> 2]     \* lexicographic order of the symbol strings
Sides == {"Buy", "Sell"}
Terminal == {"Filled", "Cancelled", "Rejected"}

----------------------------------------------------------------------------
(* events.rs: the order constructors.                                      *)

OrderEvent_market(id, ts, symbol, side, quantity) ==
    [id |-> id, created_at |-> ts, symbol |-> symbol, side |-> side,
     order_type |-> "Market", quantity |-> quantity,
     limit_price |-> None, stop_price |-> None, status |-> "Submitted"]

OrderEvent_limit(id, ts, symbol, side, quantity, limit_price) ==
    [id |-> id, created_at |-> ts, symbol |-> symbol, side |-> side,
     order_type |-> "Limit", quantity |-> quantity,
     limit_price |-> limit_price, stop_price |-> None, status |-> "Submitted"]

OrderEvent_stop(id, ts, symbol, side, quantity, stop_price) ==
    [id |-> id, created_at |-> ts, symbol |-> symbol, side |-> side,
     order_type |-> "Stop", quantity |-> quantity,
     limit_price |-> None, stop_price |-> stop_price, status |-> "Submitted"]

OrderEvent_stop_limit(id, ts, symbol, side, quantity, stop_price, limit_price) ==
    [id |-> id, created_at |-> ts, symbol |-> symbol, side |-> side,
     order_type |-> "StopLimit", quantity |-> quantity,
     limit_price |-> limit_price, stop_price |-> stop_price,
     status |-> "Submitted"]

----------------------------------------------------------------------------
(* order_manager.rs                                                        *)

\* HashMap modelled as a function
EmptyMap == [x \in {} |-> x]
MapRemoveAll(m, S) == [x \in (DOMAIN m) \ S |-> m[x]]
MapInsert(m, k, v) == [x \in (DOMAIN m) \cup {k} |-> IF x = k THEN v ELSE m[x]]

OrderManager_new ==
    [orders |-> EmptyMap, open_orders |-> <<>>, filled_orders |-> <<>>,
     cancelled_orders |-> <<>>, next_id |-> 1]

OM_submit_order_noinc(om, order) ==
    [om EXCEPT !.orders = MapInsert(om.orders, order.id, order),
               !.open_orders = Append(om.open_orders, order.id)]

OM_submit_order(om, order) ==
    [om EXCEPT !.orders = MapInsert(om.orders, order.id, order),
               !.open_orders = Append(om.open_orders, order.id),
               !.next_id = om.next_id + 1]

OM_create_market_order(om, ts, symbol, side, quantity) ==
    LET order == OrderEvent_market(om.next_id, ts, symbol, side, quantity)
    IN  [om |-> OM_submit_order(om, order), order |-> order]

OM_create_limit_order(om, ts, symbol, side, quantity, limit_price) ==
    LET order == OrderEvent_limit(om.next_id, ts, symbol, side, quantity, limit_price)
    IN  [om |-> OM_submit_order(om, order), order |-> order]

OM_create_stop_order(om, ts, symbol, side, quantity, stop_price) ==
    LET order == OrderEvent_stop(om.next_id, ts, symbol, side, quantity, stop_price)
    IN  [om |-> OM_submit_order(om, order), order |-> order]

OM_mark_pending(om, order_id) ==
    IF order_id \in DOMAIN om.orders
    THEN [om EXCEPT !.orders[order_id].status = "Pending"]
    ELSE om

OM_mark_filled(om, order_id) ==
    IF order_id \in DOMAIN om.orders
    THEN [om EXCEPT !.orders[order_id].status = "Filled",
                    !.open_orders = Retain(om.open_orders, order_id),
                    !.filled_orders = Append(om.filled_orders, order_id)]
    ELSE om

OM_mark_cancelled(om, order_id) ==
    IF order_id \in DOMAIN om.orders
    THEN [om EXCEPT !.orders[order_id].status = "Cancelled",
                    !.open_orders = Retain(om.open_orders, order_id),
                    !.cancelled_orders = Append(om.cancelled_orders, order_id)]
    ELSE om

OM_mark_rejected(om, order_id) ==
    IF order_id \in DOMAIN om.orders
    THEN [om EXCEPT !.orders[order_id].status = "Rejected",
                    !.open_orders = Retain(om.open_orders, order_id)]
    ELSE om

RECURSIVE OM_cancel_ids(_, _)
\* for id in ids { self.mark_cancelled(id) }
OM_cancel_ids(om, ids) ==
    IF ids = <<>> THEN om
    ELSE OM_cancel_ids(OM_mark_cancelled(om, ids[1]), Tail(ids))

OM_cancel_all(om) == OM_cancel_ids(om, om.open_orders)

OM_cancel_orders_for_symbol(om, symbol) ==
    LET to_cancel == SelectSeq(om.open_orders,
                        LAMBDA id : id \in DOMAIN om.orders
                                    /\ om.orders[id].symbol = symbol)
    IN  OM_cancel_ids(om, to_cancel)

OM_reset(om) == OrderManager_new

----------------------------------------------------------------------------
(* events.rs: bars and fills.                                              *)

Bar_new(ts, open, high, low, close, volume) ==
    [timestamp |-> ts, open |-> open, high |-> high, low |-> low,
     close |-> close, volume |-> volume]

----------------------------------------------------------------------------
(* portfolio.rs                                                            *)

Position_new(symbol) ==
    [symbol |-> symbol, quantity |-> Zero, average_price |-> Zero,
     market_value |-> Zero, unrealized_pnl |-> Zero, realized_pnl |-> Zero,
     cost_basis |-> Zero]

\* |x| < 1e-10.  Every rational n/d the model can hold has d < 2^31, so a
\* nonzero one has magnitude above 4e-10: the test passes exactly for zero.
BelowEps(x) == x[1] = 0

Position_is_flat(p) == BelowEps(QAbs(p.quantity))

\* the Buy branch of update_with_fill, given the new quantity
Position_buy(p, fill, new_quantity) ==
    LET total_cost == QAdd(QMul(p.quantity, p.average_price),
                           QMul(fill.quantity, fill.fill_price))
    IN  [p EXCEPT
           !.average_price = IF QGt(new_quantity, Zero)
                             THEN QDiv(total_cost, new_quantity)
                             ELSE p.average_price,
           !.quantity = new_quantity,
           !.cost_basis = QAdd(p.cost_basis,
                               QAdd(QMul(fill.quantity, fill.fill_price),
                                    fill.commission))]

\* the Sell branch of update_with_fill, given the remaining quantity
Position_sell(p, fill, quantity) ==
    LET sold_cost == QMul(fill.quantity, p.average_price)
        sold_value == QSub(QMul(fill.quantity, fill.fill_price),
                           fill.commission)
        realized == QAdd(p.realized_pnl, QSub(sold_value, sold_cost))
    IN  IF BelowEps(QAbs(quantity))
        THEN [p EXCEPT !.realized_pnl = realized, !.quantity = Zero,
                       !.average_price = Zero, !.cost_basis = Zero]
        ELSE [p EXCEPT !.realized_pnl = realized, !.quantity = quantity,
                       !.cost_basis = QSub(p.cost_basis,
                                           QMul(fill.quantity, p.average_price))]

Position_update_with_fill(p, fill) ==
    IF fill.side = "Buy"
    THEN Position_buy(p, fill, QAdd(p.quantity, fill.quantity))
    ELSE Position_sell(p, fill, QSub(p.quantity, fill.quantity))

Position_set_market_value(p, mv) ==
    [p EXCEPT !.market_value = mv, !.unrealized_pnl = QSub(mv, p.cost_basis)]

Position_update_market_value(p, current_price) ==
    Position_set_market_value(p, QMul(p.quantity, current_price))

Portfolio_new(initial_capital) ==
    [cash |-> initial_capital, initial_capital |-> initial_capital,
     positions |-> EmptyMap, equity_curve |-> <<>>,
     peak_equity |-> initial_capital, current_drawdown |-> Zero,
     max_drawdown |-> Zero, total_realized_pnl |-> Zero, trades |-> <<>>,
     event_id |-> 0]

\* index of the first open trade of the symbol, 0 when there is none
\* (self.trades.iter_mut().find(..))
FindOpenTrade(trades, symbol) ==
    LET hits == {i \in DOMAIN trades :
                    trades[i].symbol = symbol /\ trades[i].status = "open"}
    IN  IF hits = {} THEN 0 ELSE CHOOSE i \in hits : \A j \in hits : i <= j

NewTrade(trades, fill, side) ==
    [id |-> Len(trades) + 1, symbol |-> fill.symbol, side |-> side,
     quantity |-> fill.quantity, entry_price |-> fill.fill_price,
     exit_price |-> None, entry_time |-> fill.timestamp, exit_time |-> None,
     pnl |-> Zero, commission |-> fill.commission, status |-> "open"]

\* record_trade, given the index i of the symbol's first open trade
Portfolio_record_trade_at(trades, fill, i) ==
    IF fill.side = "Buy"
    THEN IF i # 0
         THEN [trades EXCEPT ![i] =
                 [@ EXCEPT
                    !.entry_price =
                        QDiv(QAdd(QMul(trades[i].entry_price, trades[i].quantity),
                                  QMul(fill.fill_price, fill.quantity)),
                             QAdd(trades[i].quantity, fill.quantity)),
                    !.quantity = QAdd(trades[i].quantity, fill.quantity),
                    !.commission = QAdd(trades[i].commission, fill.commission)]]
         ELSE Append(trades, NewTrade(trades, fill, "long"))
    ELSE IF i # 0
         THEN [trades EXCEPT ![i] =
                 [@ EXCEPT
                    !.exit_price = fill.fill_price,
                    !.exit_time = fill.timestamp,
                    !.pnl = QSub(QSub(QMul(QSub(fill.fill_price,
                                                trades[i].entry_price),
                                           fill.quantity),
                                      trades[i].commission),
                                 fill.commission),
                    !.commission = QAdd(trades[i].commission, fill.commission),
                    !.status = "closed"]]
         ELSE Append(trades, NewTrade(trades, fill, "short"))

\* record_trade that never finds an open trade
Portfolio_record_trade_always_new(trades, fill) ==
    Portfolio_record_trade_at(trades, fill, 0)

Portfolio_record_trade(trades, fill) ==
    Portfolio_record_trade_at(trades, fill, FindOpenTrade(trades, fill.symbol))

\* positions.entry(symbol).or_insert_with(|| Position::new(symbol))
Portfolio_position_entry(pf, symbol) ==
    IF symbol \in DOMAIN pf.positions THEN pf.positions[symbol]
    ELSE Position_new(symbol)

\* the tail of process_fill: the position after the fill is stored, the
\* change of its realized P&L is added to the total, the trade is recorded
Portfolio_store_fill(pf, fill, cash, prev_realized, updated) ==
    [pf EXCEPT
       !.cash = cash,
       !.positions = MapInsert(pf.positions, fill.symbol, updated),
       !.trades = Portfolio_record_trade(pf.trades, fill),
       !.total_realized_pnl =
           QAdd(pf.total_realized_pnl,
                QSub(updated.realized_pnl, prev_realized))]

Portfolio_fill_position(pf, fill, cash, position) ==
    Portfolio_store_fill(pf, fill, cash, position.realized_pnl,
                         Position_update_with_fill(position, fill))

\* process_fill with the slippage left out of the cash movement
Portfolio_process_fill_no_slippage(pf, fill) ==
    Portfolio_fill_position(pf, fill,
        IF fill.side = "Buy"
        THEN QSub(pf.cash, QAdd(QMul(fill.quantity, fill.fill_price),
                                fill.commission))
        ELSE QAdd(pf.cash, QSub(QMul(fill.quantity, fill.fill_price),
                                fill.commission)),
        Portfolio_position_entry(pf, fill.symbol))

\* process_fill with the proceeds of a Sell taken from the cash
Portfolio_process_fill_sell_debits(pf, fill) ==
    Portfolio_fill_position(pf, fill,
        QSub(pf.cash, QAdd(QAdd(QMul(fill.quantity, fill.fill_price),
                                fill.commission), fill.slippage)),
        Portfolio_position_entry(pf, fill.symbol))

Portfolio_process_fill(pf, fill) ==
    Portfolio_fill_position(pf, fill,
        IF fill.side = "Buy"
        THEN QSub(pf.cash, QAdd(QAdd(QMul(fill.quantity, fill.fill_price),
                                     fill.commission), fill.slippage))
        ELSE QAdd(pf.cash, QSub(QSub(QMul(fill.quantity, fill.fill_price),
                                     fill.commission), fill.slippage)),
        Portfolio_position_entry(pf, fill.symbol))

RECURSIVE Portfolio_process_fills(_, _)
\* for fill in fills { self.process_fill(fill)? }
Portfolio_process_fills(pf, fills) ==
    IF fills = <<>> THEN pf
    ELSE Portfolio_process_fills(Portfolio_process_fill(pf, fills[1]), Tail(fills))

Portfolio_update_market_values(pf, prices) ==
    [pf EXCEPT !.positions =
        [s \in DOMAIN pf.positions |->
            IF s \in DOMAIN prices
            THEN Position_update_market_value(pf.positions[s], prices[s])
            ELSE pf.positions[s]]]

RECURSIVE SumOver(_, _, _)
\* sum of f[s].field over the keys in S (addition is exact, so the order of
\* the HashMap iteration does not matter)
SumOver(f, S, field) ==
    IF S = {} THEN Zero
    ELSE LET s == CHOOSE x \in S : TRUE
         IN  QAdd(f[s][field], SumOver(f, S \ {s}, field))

Portfolio_positions_value(pf) ==
    SumOver(pf.positions, DOMAIN pf.positions, "market_value")

Portfolio_total_equity(pf) == QAdd(pf.cash, Portfolio_positions_value(pf))

\* the tail of record_equity: the drawdown figures and the new point
Portfolio_record_point(pf, timestamp, equity, positions_value, peak, dd) ==
    [pf EXCEPT
       !.peak_equity = peak,
       !.current_drawdown = dd,
       !.max_drawdown = IF QGt(dd, pf.max_drawdown) THEN dd
                        ELSE pf.max_drawdown,
       !.equity_curve = Append(pf.equity_curve,
           [timestamp |-> timestamp, equity |-> equity, cash |-> pf.cash,
            positions_value |-> positions_value, drawdown |-> dd,
            drawdown_pct |-> IF QGt(peak, Zero)
                             THEN QMul(QDiv(dd, peak), QInt(100))
                             ELSE Zero])]

Portfolio_record_peak(pf, timestamp, equity, positions_value, peak) ==
    Portfolio_record_point(pf, timestamp, equity, positions_value, peak,
                           QSub(peak, equity))

\* record_equity without the update of the peak
Portfolio_record_values_stale_peak(pf, timestamp, equity, positions_value) ==
    Portfolio_record_peak(pf, timestamp, equity, positions_value,
                          pf.peak_equity)

Portfolio_record_values(pf, timestamp, equity, positions_value) ==
    Portfolio_record_peak(pf, timestamp, equity, positions_value,
        IF QGt(equity, pf.peak_equity) THEN equity ELSE pf.peak_equity)

Portfolio_record_equity(pf, timestamp) ==
    Portfolio_record_values(pf, timestamp, Portfolio_total_equity(pf),
                            Portfolio_positions_value(pf))

\* f64::INFINITY, kept apart from every rational by its zero denominator
Infinity == <<1, 0>>

TradeRecord_is_closed(t) == t.status = "closed"
TradeRecord_is_winning(t) == QGt(t.pnl, Zero)
TradeRecord_is_losing(t) == QLt(t.pnl, Zero)

RECURSIVE SumPnl(_)
\* trades.iter().map(|t| t.pnl).sum()
SumPnl(trades) ==
    IF trades = <<>> THEN Zero
    ELSE QAdd(trades[1].pnl, SumPnl(Tail(trades)))

RECURSIVE LargestAbsPnl(_)
\* trades.iter().map(|t| t.pnl.abs()).fold(0.0, f64::max)
LargestAbsPnl(trades) ==
    IF trades = <<>> THEN Zero
    ELSE IF QGt(QAbs(trades[Len(trades)].pnl),
                LargestAbsPnl(SubSeq(trades, 1, Len(trades) - 1)))
         THEN QAbs(trades[Len(trades)].pnl)
         ELSE LargestAbsPnl(SubSeq(trades, 1, Len(trades) - 1))

\* the figures trade_stats derives from the counts and the two sums
Portfolio_stats_of(total, winning, losing, total_wins, total_losses, lw, ll) ==
    [total_trades |-> total,
     winning_trades |-> winning,
     losing_trades |-> losing,
     win_rate |-> IF total > 0
                  THEN QMul(QDiv(QInt(winning), QInt(total)), QInt(100))
                  ELSE Zero,
     average_win |-> IF winning > 0 THEN QDiv(total_wins, QInt(winning))
                     ELSE Zero,
     average_loss |-> IF losing > 0 THEN QDiv(total_losses, QInt(losing))
                      ELSE Zero,
     profit_factor |-> IF QGt(total_losses, Zero)
                       THEN QDiv(total_wins, total_losses)
                       ELSE IF QGt(total_wins, Zero) THEN Infinity ELSE Zero,
     largest_win |-> lw,
     largest_loss |-> ll]

\* trade_stats over the trades it takes for closed, split into winners and
\* losers
Portfolio_stats_split(closed, winning, losing) ==
    Portfolio_stats_of(Len(closed), Len(winning), Len(losing),
                       SumPnl(winning), QNeg(SumPnl(losing)),
                       LargestAbsPnl(winning), LargestAbsPnl(losing))

Portfolio_stats_over(closed) ==
    Portfolio_stats_split(closed, SelectSeq(closed, TradeRecord_is_winning),
                          SelectSeq(closed, TradeRecord_is_losing))

\* trade_stats that takes every trade of the ledger, open or closed
Portfolio_trade_stats_all(pf) == Portfolio_stats_over(pf.trades)

Portfolio_trade_stats(pf) ==
    Portfolio_stats_over(SelectSeq(pf.trades, TradeRecord_is_closed))

----------------------------------------------------------------------------
(* config.rs                                                               *)

BrokerageConfig_default ==
    [maker_fee |-> <<1, 1000>>, taker_fee |-> <<1, 1000>>,
     slippage_fixed |-> Zero, slippage_pct |-> <<1, 2000>>,
     realistic_fills |-> TRUE, margin_requirement |-> One,
     max_leverage |-> One]

----------------------------------------------------------------------------
(* brokerage.rs                                                            *)

\* values rng.gen_range(0.5..1.5) can return
RandomFactors == {<<1, 2>>, One}

VolumeImpactRate == <<1, 1000>>

Brokerage_new(cfg) == [config |-> cfg, pending_orders |-> EmptyMap, event_id |-> 0]

Brokerage_default == Brokerage_new(BrokerageConfig_default)

Brokerage_submit_order(brk, order) ==
    LET pending == [order EXCEPT !.status = "Pending"]
    IN  IF order.order_type = "Market"
        THEN [brk |-> brk, order |-> pending]
        ELSE [brk |-> [brk EXCEPT !.pending_orders =
                          MapInsert(brk.pending_orders, order.id, pending)],
              order |-> pending]

\* calculate_slippage without the test of realistic_fills
Brokerage_calculate_slippage_always(brk, order, bar, base_price, random_factor) ==
    QMul(QAdd(QAdd(brk.config.slippage_fixed,
                   QMul(base_price, brk.config.slippage_pct)),
              IF QGt(bar.volume, Zero)
              THEN QMul(QMul(QDiv(order.quantity, bar.volume), base_price),
                        VolumeImpactRate)
              ELSE Zero),
         random_factor)

Brokerage_calculate_slippage(brk, order, bar, base_price, random_factor) ==
    IF ~brk.config.realistic_fills THEN Zero
    ELSE LET fixed == brk.config.slippage_fixed
             pct == QMul(base_price, brk.config.slippage_pct)
             volume_impact ==
                 IF QGt(bar.volume, Zero)
                 THEN QMul(QMul(QDiv(order.quantity, bar.volume), base_price),
                           VolumeImpactRate)
                 ELSE Zero
         IN  QMul(QAdd(QAdd(fixed, pct), volume_impact), random_factor)

Brokerage_calculate_commission(brk, order, fill_price) ==
    LET trade_value == QMul(order.quantity, fill_price)
        fee_rate == CASE order.order_type = "Market" -> brk.config.taker_fee
                      [] order.order_type = "Limit" -> brk.config.maker_fee
                      [] OTHER -> brk.config.taker_fee
    IN  QMul(trade_value, fee_rate)

\* the FillEvent of create_fill and the brokerage with the advanced fill-id
\* counter
Brokerage_fill_event(brk, order, bar, fill_price, slippage) ==
    [brk |-> [brk EXCEPT !.event_id = brk.event_id + 1],
     fill |-> [id |-> brk.event_id + 1, order_id |-> order.id,
               timestamp |-> bar.timestamp, symbol |-> order.symbol,
               side |-> order.side, quantity |-> order.quantity,
               fill_price |-> fill_price,
               commission |-> Brokerage_calculate_commission(brk, order,
                                                             fill_price),
               slippage |-> slippage]]

Brokerage_fill_slipped(brk, order, bar, base_price, slippage) ==
    Brokerage_fill_event(brk, order, bar,
        IF order.side = "Buy" THEN QAdd(base_price, slippage)
        ELSE QSub(base_price, slippage),
        slippage)

Brokerage_create_fill(brk, order, bar, base_price, random_factor) ==
    Brokerage_fill_slipped(brk, order, bar, base_price,
        Brokerage_calculate_slippage(brk, order, bar, base_price, random_factor))

\* the Limit arm with the sides of the comparison exchanged
Brokerage_limit_base_swapped(order, bar) ==
    IF order.limit_price = None THEN None
    ELSE IF (order.side = "Buy" /\ QGe(bar.high, order.limit_price))
            \/ (order.side = "Sell" /\ QLe(bar.low, order.limit_price))
         THEN order.limit_price ELSE None

\* the Limit arm of try_fill_order: the base price, or None for no fill
Brokerage_limit_base(order, bar) ==
    IF order.limit_price = None THEN None
    ELSE IF (order.side = "Buy" /\ QLe(bar.low, order.limit_price))
            \/ (order.side = "Sell" /\ QGe(bar.high, order.limit_price))
         THEN order.limit_price ELSE None

\* the Stop arm filling at the stop price
Brokerage_stop_base_at_stop(order, bar) ==
    IF order.stop_price = None THEN None
    ELSE IF (order.side = "Buy" /\ QGe(bar.high, order.stop_price))
            \/ (order.side = "Sell" /\ QLe(bar.low, order.stop_price))
         THEN order.stop_price ELSE None

\* the Stop arm of try_fill_order
Brokerage_stop_base(order, bar) ==
    IF order.stop_price = None THEN None
    ELSE IF (order.side = "Buy" /\ QGe(bar.high, order.stop_price))
            \/ (order.side = "Sell" /\ QLe(bar.low, order.stop_price))
         THEN bar.close ELSE None

\* the StopLimit arm without the test of the limit
Brokerage_stop_limit_base_unchecked(order, bar) ==
    IF order.stop_price = None \/ order.limit_price = None THEN None
    ELSE IF (order.side = "Buy" /\ QGe(bar.high, order.stop_price))
            \/ (order.side = "Sell" /\ QLe(bar.low, order.stop_price))
         THEN order.limit_price ELSE None

\* the StopLimit arm of try_fill_order
Brokerage_stop_limit_base(order, bar) ==
    IF order.stop_price = None \/ order.limit_price = None THEN None
    ELSE IF ((order.side = "Buy" /\ QGe(bar.high, order.stop_price))
             \/ (order.side = "Sell" /\ QLe(bar.low, order.stop_price)))
            /\ ((order.side = "Buy" /\ QLe(bar.low, order.limit_price))
                \/ (order.side = "Sell" /\ QGe(bar.high, order.limit_price)))
         THEN order.limit_price ELSE None

\* the base price at which try_fill_order fills the order on this bar, or
\* None when it does not fill
Brokerage_fill_base(order, bar) ==
    CASE order.order_type = "Market" -> bar.close
      [] order.order_type = "Limit" -> Brokerage_limit_base(order, bar)
      [] order.order_type = "Stop" -> Brokerage_stop_base(order, bar)
      [] order.order_type = "StopLimit" -> Brokerage_stop_limit_base(order, bar)

Brokerage_execute_market_order(brk, order, bar, random_factor) ==
    IF order.order_type # "Market" THEN [brk |-> brk, fill |-> None]
    ELSE Brokerage_create_fill(brk, order, bar, bar.close, random_factor)

\* the pending orders process_bar fills on this bar
Fillable(brk, bar, symbol) ==
    {id \in DOMAIN brk.pending_orders :
        /\ brk.pending_orders[id].symbol = symbol
        /\ Brokerage_fill_base(brk.pending_orders[id], bar) # None}

\* fills.push(fill) and the brokerage the fill left
Brokerage_push_fill(fills, r) == [brk |-> r.brk, fills |-> Append(fills, r.fill)]

\* one iteration of the loop of process_bar: try_fill_order on order id
Brokerage_fill_one(acc, bar, id, random_factor) ==
    Brokerage_push_fill(acc.fills,
        Brokerage_create_fill(acc.brk, acc.brk.pending_orders[id], bar,
            Brokerage_fill_base(acc.brk.pending_orders[id], bar),
            random_factor))

RECURSIVE Brokerage_fill_each(_, _, _, _)
\* the loop of process_bar over the pending orders, visited in the order
\* `visit`; rf[id] is the random factor drawn for the fill of order id
Brokerage_fill_each(acc, bar, visit, rf) ==
    IF visit = <<>> THEN acc
    ELSE Brokerage_fill_each(Brokerage_fill_one(acc, bar, visit[1], rf[visit[1]]),
                             bar, Tail(visit), rf)

\* process_bar leaving the filled orders in the pending set
Brokerage_remove_none(brk, visit, r) == [brk |-> r.brk, fills |-> r.fills]

\* the filled orders leave the pending set
Brokerage_remove_filled(brk, visit, r) ==
    [brk |-> [r.brk EXCEPT !.pending_orders =
                MapRemoveAll(brk.pending_orders, Range(visit))],
     fills |-> r.fills]

\* process_bar.  `visit` is the order in which the iteration over the
\* HashMap meets the fillable orders.
Brokerage_process_bar(brk, bar, symbol, visit, rf) ==
    Brokerage_remove_filled(brk, visit,
        Brokerage_fill_each([brk |-> brk, fills |-> <<>>], bar, visit, rf))

----------------------------------------------------------------------------
(* datafeed.rs                                                             *)

\* `iter_order` is the order in which iterating the `data` HashMap meets its
\* keys: fixed for one map, arbitrary from one map to another.
DataFeed_new(iter_order) ==
    [data |-> EmptyMap, indices |-> EmptyMap, event_id |-> 0,
     align_timestamps |-> TRUE, iter_order |-> iter_order]

RECURSIVE InsertSorted(_, _)
\* stable insertion of bar b behind the bars with timestamp <= b.timestamp
InsertSorted(sorted, b) ==
    IF sorted = <<>> THEN <<b>>
    ELSE IF sorted[1].timestamp <= b.timestamp
         THEN <<sorted[1]>> \o InsertSorted(Tail(sorted), b)
         ELSE <<b>> \o sorted

RECURSIVE SortBars(_)
\* bars.sort_by(|a, b| a.timestamp.cmp(&b.timestamp)), a stable sort
SortBars(bars) ==
    IF bars = <<>> THEN <<>>
    ELSE InsertSorted(SortBars(SubSeq(bars, 1, Len(bars) - 1)), bars[Len(bars)])

\* load_bars that stores the bars as they come
DataFeed_load_bars_unsorted(df, symbol, bars) ==
    [df EXCEPT !.data = MapInsert(df.data, symbol, bars),
               !.indices = MapInsert(df.indices, symbol, 0)]

DataFeed_load_bars(df, symbol, bars) ==
    [df EXCEPT !.data = MapInsert(df.data, symbol, SortBars(bars)),
               !.indices = MapInsert(df.indices, symbol, 0)]

RECURSIVE SortedSeq(_)
\* the elements of a set of integers in ascending order (Vec::sort)
SortedSeq(S) ==
    IF S = {} THEN <<>>
    ELSE LET m == CHOOSE x \in S : \A y \in S : x <= y
         IN  <<m>> \o SortedSeq(S \ {m})

\* all_timestamps of get_aligned_bars: the distinct timestamps, sorted
AllTimestamps(df) ==
    SortedSeq(UNION {{df.data[s][i].timestamp : i \in DOMAIN df.data[s]} :
                        s \in DOMAIN df.data})

\* bars.iter().find(|b| b.timestamp == ts): index of the first such bar, or 0
FindBar(bars, ts) ==
    LET hits == {i \in DOMAIN bars : bars[i].timestamp = ts}
    IN  IF hits = {} THEN 0 ELSE CHOOSE i \in hits : \A j \in hits : i <= j

\* the keys of `data` in the order in which the HashMap iteration meets them
DataKeys(df) == SelectSeq(df.iter_order, LAMBDA s : s \in DOMAIN df.data)

RECURSIVE EmitForSymbols(_, _, _, _, _)
\* inner loop of get_aligned_bars: `for (symbol, bars) in &self.data`
EmitForSymbols(df, ts, syms, event_id, events) ==
    IF syms = <<>> THEN [event_id |-> event_id, events |-> events]
    ELSE LET i == FindBar(df.data[syms[1]], ts)
         IN  IF i # 0
             THEN EmitForSymbols(df, ts, Tail(syms), event_id + 1,
                     Append(events, [id |-> event_id + 1, symbol |-> syms[1],
                                     bar |-> df.data[syms[1]][i]]))
             ELSE EmitForSymbols(df, ts, Tail(syms), event_id, events)

RECURSIVE EmitForTimestamps(_, _, _, _, _)
\* outer loop of get_aligned_bars: `for ts in all_timestamps`
EmitForTimestamps(df, tss, syms, event_id, events) ==
    IF tss = <<>> THEN [event_id |-> event_id, events |-> events]
    ELSE LET r == EmitForSymbols(df, tss[1], syms, event_id, events)
         IN  EmitForTimestamps(df, Tail(tss), syms, r.event_id, r.events)

DataFeed_get_aligned_bars(df) ==
    LET r == EmitForTimestamps(df, AllTimestamps(df), DataKeys(df),
                               df.event_id, <<>>)
    IN  [df |-> [df EXCEPT !.event_id = r.event_id], events |-> r.events]

DataFeed_next_bar(df, symbol) ==
    IF symbol \notin DOMAIN df.data \/ symbol \notin DOMAIN df.indices
    THEN [df |-> df, event |-> None]
    ELSE IF df.indices[symbol] >= Len(df.data[symbol])
         THEN [df |-> df, event |-> None]
         ELSE [df |-> [df EXCEPT !.indices[symbol] = @ + 1,
                                 !.event_id = @ + 1],
               event |-> [id |-> df.event_id + 1, symbol |-> symbol,
                          bar |-> df.data[symbol][df.indices[symbol] + 1]]]

DataFeed_reset(df) ==
    [df EXCEPT !.indices = [s \in DOMAIN df.indices |-> 0], !.event_id = 0]

----------------------------------------------------------------------------
(* engine.rs                                                               *)

\* chrono's DateTime<Utc>::to_rfc3339 writes the offset as "+00:00"; a key
\* string is modelled by its instant and the way its offset is written
to_rfc3339(ts) == [t |-> ts, offset |-> "+00:00"]

\* An i64 timestamp t >= 0 is modelled as <<k, r>> with t = 1000 * k + r and
\* 0 <= r < 1000, which keeps values around 10^10 within the integers of
\* the checker.
Thousand == 1000
Wide(k, r) == <<k, r>>
WideGt(a, b) == a[1] > b[1] \/ (a[1] = b[1] /\ a[2] > b[2])
WideGe(a, b) == a = b \/ WideGt(a, b)
\* ts / 1000
WideDivThousand(a) == Wide(a[1] \div Thousand, a[1] % Thousand)
\* 10_000_000_000
MillisThreshold == Wide(10000000, 0)

\* the integer branch of DataFeed::parse_timestamp: the seconds handed to
\* DateTime::from_timestamp
DataFeed_parse_timestamp(ts) ==
    IF WideGt(ts, MillisThreshold) THEN WideDivThousand(ts) ELSE ts

\* the integer branch of BacktestEngine::parse_timestamp
Engine_parse_timestamp(ts) ==
    IF WideGt(ts, MillisThreshold) THEN WideDivThousand(ts) ELSE ts

RECURSIVE CollectSignals(_, _)
\* signals.into_iter().collect::<HashMap<_, _>>(): a later pair replaces an
\* earlier one with the same key
CollectSignals(signals, m) ==
    IF signals = <<>> THEN m
    ELSE CollectSignals(Tail(signals), MapInsert(m, signals[1][1], signals[1][2]))

SizingFraction == <<19, 20>>

\* the engine's components as one value: operators below take and return it
Components ==
    [portfolio |-> portfolio, brokerage |-> brokerage,
     order_manager |-> order_manager, current_prices |-> current_prices,
     current_time |-> current_time]

BrokerageConfigOf(cfg) ==
    [BrokerageConfig_default EXCEPT !.maker_fee = cfg.maker_fee,
                                    !.taker_fee = cfg.taker_fee,
                                    !.slippage_pct = cfg.slippage_pct]

\* BacktestEngine::new, without the data feed
Engine_new(cfg) ==
    [portfolio |-> Portfolio_new(cfg.initial_capital),
     brokerage |-> Brokerage_new(BrokerageConfigOf(cfg)),
     order_manager |-> OrderManager_new,
     current_prices |-> EmptyMap, current_time |-> None]

Engine_calculate_order_size(cfg, cash, price) ==
    LET position_size == QMul(cash, SizingFraction)
        fee_adjusted == QDiv(position_size,
                             QAdd(QAdd(One, cfg.taker_fee), cfg.slippage_pct))
    IN  QDiv(fee_adjusted, price)

\* the fill x of the order created by c is applied to the portfolio and,
\* when `mark` holds, the order is marked filled
Engine_apply_order_fill(e, c, x, mark) ==
    IF x.fill = None
    THEN [e |-> [e EXCEPT !.order_manager = c.om], fill |-> None]
    ELSE [e |-> [e EXCEPT
                   !.order_manager = IF mark THEN OM_mark_filled(c.om, c.order.id)
                                     ELSE c.om,
                   !.brokerage = x.brk,
                   !.portfolio = Portfolio_process_fill(e.portfolio, x.fill)],
          fill |-> x.fill]

Engine_execute_order(e, c, bar, rf, mark) ==
    Engine_apply_order_fill(e, c,
        Brokerage_execute_market_order(e.brokerage, c.order, bar, rf), mark)

\* create a market order, execute it against the bar, apply the fill and,
\* when `mark` holds, mark the order filled
Engine_market_order(e, ts, symbol, side, quantity, bar, rf, mark) ==
    Engine_execute_order(e,
        OM_create_market_order(e.order_manager, ts, symbol, side, quantity),
        bar, rf, mark)

\* what execute_signal did: `sized_cash` reports the cash
\* calculate_order_size read, None when it was not called
Engine_signal_result(r, sized_cash) ==
    [e |-> r.e, fill |-> r.fill, sized_cash |-> sized_cash]

\* the Buy branch of execute_signal, given the computed order quantity
Engine_buy(e, symbol, bar, rf, order_qty) ==
    IF QGt(order_qty, Zero)
    THEN Engine_signal_result(
             Engine_market_order(e, bar.timestamp, symbol, "Buy", order_qty,
                                 bar, rf, TRUE),
             e.portfolio.cash)
    ELSE [e |-> e, fill |-> None, sized_cash |-> e.portfolio.cash]

\* execute_signal whose Buy branch does not look at the quantity held
Engine_signal_on_always_buy(e, cfg, symbol, signal, bar, rf, current_qty) ==
    CASE signal = 1 ->
           Engine_buy(e, symbol, bar, rf,
               Engine_calculate_order_size(cfg, e.portfolio.cash, bar.close))
      [] signal = -1 ->
           IF QGt(current_qty, Zero)
           THEN Engine_signal_result(
                    Engine_market_order(e, bar.timestamp, symbol, "Sell",
                                        current_qty, bar, rf, TRUE),
                    None)
           ELSE [e |-> e, fill |-> None, sized_cash |-> None]
      [] OTHER -> [e |-> e, fill |-> None, sized_cash |-> None]

\* execute_signal whose Sell branch sells half of the quantity held
Engine_signal_on_half(e, cfg, symbol, signal, bar, rf, current_qty) ==
    CASE signal = 1 ->
           IF QLe(current_qty, Zero)
           THEN Engine_buy(e, symbol, bar, rf,
                    Engine_calculate_order_size(cfg, e.portfolio.cash, bar.close))
           ELSE [e |-> e, fill |-> None, sized_cash |-> None]
      [] signal = -1 ->
           IF QGt(current_qty, Zero)
           THEN Engine_signal_result(
                    Engine_market_order(e, bar.timestamp, symbol, "Sell",
                                        QDiv(current_qty, QInt(2)), bar, rf,
                                        TRUE),
                    None)
           ELSE [e |-> e, fill |-> None, sized_cash |-> None]
      [] OTHER -> [e |-> e, fill |-> None, sized_cash |-> None]

\* execute_signal whose Sell branch sells one unit more than is held
Engine_signal_on_oversell(e, cfg, symbol, signal, bar, rf, current_qty) ==
    CASE signal = 1 ->
           IF QLe(current_qty, Zero)
           THEN Engine_buy(e, symbol, bar, rf,
                    Engine_calculate_order_size(cfg, e.portfolio.cash, bar.close))
           ELSE [e |-> e, fill |-> None, sized_cash |-> None]
      [] signal = -1 ->
           IF QGt(current_qty, Zero)
           THEN Engine_signal_result(
                    Engine_market_order(e, bar.timestamp, symbol, "Sell",
                                        QAdd(current_qty, One), bar, rf, TRUE),
                    None)
           ELSE [e |-> e, fill |-> None, sized_cash |-> None]
      [] OTHER -> [e |-> e, fill |-> None, sized_cash |-> None]

\* execute_signal, given the quantity currently held
Engine_signal_on(e, cfg, symbol, signal, bar, rf, current_qty) ==
    CASE signal = 1 ->
           IF QLe(current_qty, Zero)
           THEN Engine_buy(e, symbol, bar, rf,
                    Engine_calculate_order_size(cfg, e.portfolio.cash, bar.close))
           ELSE [e |-> e, fill |-> None, sized_cash |-> None]
      [] signal = -1 ->
           IF QGt(current_qty, Zero)
           THEN Engine_signal_result(
                    Engine_market_order(e, bar.timestamp, symbol, "Sell",
                                        current_qty, bar, rf, TRUE),
                    None)
           ELSE [e |-> e, fill |-> None, sized_cash |-> None]
      [] OTHER -> [e |-> e, fill |-> None, sized_cash |-> None]

Engine_execute_signal(e, cfg, symbol, signal, bar, rf) ==
    Engine_signal_on(e, cfg, symbol, signal, bar, rf,
        IF symbol \in DOMAIN e.portfolio.positions
        THEN e.portfolio.positions[symbol].quantity ELSE Zero)

\* the fills r of process_bar go to the portfolio
Engine_pending_result(e, r) ==
    [e |-> [e EXCEPT !.brokerage = r.brk,
                     !.portfolio = Portfolio_process_fills(e.portfolio, r.fills)],
     fills |-> r.fills]

\* the two halves of process_market_data that touch orders
Engine_apply_pending(e, event, visit, rfs) ==
    Engine_pending_result(e,
        Brokerage_process_bar(e.brokerage, event.bar, event.symbol, visit, rfs))

Engine_apply_signal(e, cfg, event, signals, rf) ==
    IF to_rfc3339(event.bar.timestamp) \in DOMAIN signals
    THEN Engine_execute_signal(e, cfg, event.symbol,
                               signals[to_rfc3339(event.bar.timestamp)],
                               event.bar, rf)
    ELSE [e |-> e, fill |-> None, sized_cash |-> None]

\* the head of process_market_data: the price and the time of the event
Engine_observe(e, event) ==
    [e EXCEPT !.current_prices = MapInsert(e.current_prices, event.symbol,
                                           event.bar.close),
              !.current_time = event.bar.timestamp]

\* the tail of process_market_data on the engine `last`: market values and
\* the equity point; `obs` reports what the handler did with the pending
\* fills p and the signal s
Engine_end_of_event(e, event, p, s, last) ==
    [e |-> [last EXCEPT !.portfolio =
              Portfolio_record_equity(
                  Portfolio_update_market_values(last.portfolio,
                                                 last.current_prices),
                  event.bar.timestamp)],
     obs |-> [event |-> event, pending_fills |-> p.fills,
              cash_after_pending |-> p.e.portfolio.cash,
              signal_fill |-> s.fill, sized_cash |-> s.sized_cash,
              orders_before |-> e.order_manager.next_id,
              before |-> e.portfolio]]

Engine_end_after_signal(e, event, p, s) == Engine_end_of_event(e, event, p, s, s.e)

Engine_signal_after_pending(e, cfg, event, signals, rf, p) ==
    Engine_end_after_signal(e, event, p,
        Engine_apply_signal(p.e, cfg, event, signals, rf))

\* process_market_data with the signal evaluated before the pending fills
Engine_process_market_data_signal_first(e, cfg, event, signals, visit, rfs, rf) ==
    LET s == Engine_apply_signal(Engine_observe(e, event), cfg, event, signals, rf)
        p == Engine_apply_pending(s.e, event, visit, rfs)
    IN  Engine_end_of_event(e, event, p, s, p.e)

\* process_market_data.  `visit` and `rfs` are the iteration order and the
\* random draws of process_bar, `rf` the draw of the signal's market order.
Engine_process_market_data(e, cfg, event, signals, visit, rfs, rf) ==
    Engine_signal_after_pending(e, cfg, event, signals, rf,
        Engine_apply_pending(Engine_observe(e, event), event, visit, rfs))

\* the positions close_all_positions sells: not flat, long, with a price
Liquidated(e) ==
    {s \in DOMAIN e.portfolio.positions :
        /\ ~Position_is_flat(e.portfolio.positions[s])
        /\ QGt(e.portfolio.positions[s].quantity, Zero)
        /\ s \in DOMAIN e.current_prices}

\* fills.push(fill) for the fill of r, when there is one
Engine_push_fill(fills, r) ==
    [e |-> r.e, fills |-> IF r.fill = None THEN fills ELSE Append(fills, r.fill)]

\* the bar close_all_positions builds from the last price of the symbol
\* (current_time is set whenever a price is)
Engine_closing_bar(e, symbol) ==
    Bar_new(e.current_time, e.current_prices[symbol], e.current_prices[symbol],
            e.current_prices[symbol], e.current_prices[symbol], Zero)

\* an iteration of close_all_positions that records an equity point after
\* its fill
Engine_close_one_recording(acc, position, rf) ==
    LET r == Engine_push_fill(acc.fills,
                 Engine_market_order(acc.e, acc.e.current_time, position[1],
                                     "Sell", position[2],
                                     Engine_closing_bar(acc.e, position[1]),
                                     rf, FALSE))
    IN  [r EXCEPT !.e.portfolio =
                     Portfolio_record_equity(@, acc.e.current_time)]

\* one iteration of the loop of close_all_positions
Engine_close_one(acc, position, rf) ==
    Engine_push_fill(acc.fills,
        Engine_market_order(acc.e, acc.e.current_time, position[1], "Sell",
                            position[2], Engine_closing_bar(acc.e, position[1]),
                            rf, FALSE))

RECURSIVE Engine_close_each(_, _, _)
\* the loop of close_all_positions; `positions` holds the (symbol, quantity)
\* pairs collected before the loop, in the order of the HashMap iteration
Engine_close_each(acc, positions, rfs) ==
    IF positions = <<>> THEN acc
    ELSE Engine_close_each(
             Engine_close_one(acc, positions[1], rfs[positions[1][1]]),
             Tail(positions), rfs)

\* close_all_positions that sells nothing
Engine_close_none(e, visit, rfs) == [e |-> e, fills |-> <<>>]

Engine_close_all_positions(e, visit, rfs) ==
    Engine_close_each([e |-> e, fills |-> <<>>],
        [i \in DOMAIN visit |-> <<visit[i], e.portfolio.positions[visit[i]].quantity>>],
        rfs)

\* Portfolio::new, Brokerage::default, OrderManager::reset and the clearing
\* of the engine's own fields; the data feed is reset by the action
Engine_reset(e, cfg) ==
    [portfolio |-> Portfolio_new(cfg.initial_capital),
     brokerage |-> Brokerage_default,
     order_manager |-> OM_reset(e.order_manager),
     current_prices |-> EmptyMap, current_time |-> None]

----------------------------------------------------------------------------
(* metrics.rs.  The fields of BacktestMetrics that calculate derives with  *)
(* powf and sqrt (annual and monthly return, the volatilities, the ratios, *)
(* VaR and CVaR) have no exact rational value; the record calculate        *)
(* returns for a curve of two points or more carries the other fields.     *)
(* BacktestMetrics::default() carries all of them.  Timestamps of equity   *)
(* points count days.                                                      *)

TradeStats_default ==
    [total_trades |-> 0, winning_trades |-> 0, losing_trades |-> 0,
     win_rate |-> Zero, average_win |-> Zero, average_loss |-> Zero,
     profit_factor |-> Zero, largest_win |-> Zero, largest_loss |-> Zero]

BacktestMetrics_default ==
    [total_return |-> Zero, annual_return |-> Zero, monthly_return |-> Zero,
     volatility |-> Zero, downside_volatility |-> Zero, max_drawdown |-> Zero,
     max_drawdown_duration |-> 0, sharpe_ratio |-> Zero,
     sortino_ratio |-> Zero, calmar_ratio |-> Zero, alpha |-> Zero,
     beta |-> Zero, information_ratio |-> Zero, treynor_ratio |-> Zero,
     var_95 |-> Zero, cvar_95 |-> Zero, trade_stats |-> TradeStats_default,
     equity_curve |-> <<>>, timestamps |-> <<>>]

\* the else branch of the loop of calculate_max_drawdown at index i, given
\* the drawdown dd of the point and the start of the current drawdown
Metrics_dd_fall(acc, i, curve, dd, start) ==
    [acc EXCEPT
       !.max_dd = IF QGt(dd, acc.max_dd) THEN dd ELSE acc.max_dd,
       !.current_dd_start = start,
       !.in_drawdown = TRUE,
       !.max_dd_duration =
           IF /\ i > start /\ i <= Len(curve) /\ start <= Len(curve)
              /\ curve[i].timestamp - curve[start].timestamp
                    > acc.max_dd_duration
           THEN curve[i].timestamp - curve[start].timestamp
           ELSE acc.max_dd_duration]

\* one iteration that measures every point against the first equity
Metrics_dd_visit_first_peak(acc, i, equity, curve) ==
    Metrics_dd_fall(acc, i, curve, QDiv(QSub(acc.peak, equity), acc.peak),
                    IF acc.in_drawdown THEN acc.current_dd_start ELSE i)

\* one iteration of the loop of calculate_max_drawdown
Metrics_dd_visit(acc, i, equity, curve) ==
    IF QGt(equity, acc.peak)
    THEN [acc EXCEPT !.peak = equity, !.in_drawdown = FALSE]
    ELSE Metrics_dd_fall(acc, i, curve,
                         QDiv(QSub(acc.peak, equity), acc.peak),
                         IF acc.in_drawdown THEN acc.current_dd_start ELSE i)

RECURSIVE Metrics_dd_loop(_, _, _, _)
\* for (i, &equity) in equities.iter().enumerate()
Metrics_dd_loop(acc, i, equities, curve) ==
    IF i > Len(equities) THEN acc
    ELSE Metrics_dd_loop(Metrics_dd_visit(acc, i, equities[i], curve),
                         i + 1, equities, curve)

MetricsCalculator_calculate_max_drawdown(equities, curve) ==
    IF equities = <<>>
    THEN [max_dd |-> Zero, max_dd_duration |-> 0]
    ELSE Metrics_dd_loop([peak |-> equities[1], max_dd |-> Zero,
                          max_dd_duration |-> 0, current_dd_start |-> 1,
                          in_drawdown |-> FALSE],
                         1, equities, curve)

\* the result of calculate built from the equities and the drawdown dd
Metrics_result(curve, trade_stats, equities, initial, final_equity, dd) ==
    [total_return |-> QMul(QSub(QDiv(final_equity, initial), One), QInt(100)),
     max_drawdown |-> QMul(dd.max_dd, QInt(100)),
     max_drawdown_duration |-> dd.max_dd_duration,
     alpha |-> Zero, beta |-> Zero, information_ratio |-> Zero,
     treynor_ratio |-> Zero, trade_stats |-> trade_stats,
     equity_curve |-> equities,
     timestamps |-> [i \in DOMAIN curve |-> to_rfc3339(curve[i].timestamp)]]

Metrics_of_equities(curve, trade_stats, equities) ==
    Metrics_result(curve, trade_stats, equities,
        IF equities = <<>> THEN One ELSE equities[1],
        IF equities = <<>> THEN One ELSE equities[Len(equities)],
        MetricsCalculator_calculate_max_drawdown(equities, curve))

\* calculate without its guard on the length of the curve
MetricsCalculator_calculate_unguarded(equity_curve, trade_stats) ==
    Metrics_of_equities(equity_curve, trade_stats,
        [i \in DOMAIN equity_curve |-> equity_curve[i].equity])

MetricsCalculator_calculate(equity_curve, trade_stats) ==
    IF Len(equity_curve) < 2 THEN BacktestMetrics_default
    ELSE Metrics_of_equities(equity_curve, trade_stats,
             [i \in DOMAIN equity_curve |-> equity_curve[i].equity])

----------------------------------------------------------------------------
(* Inputs of the engine runs.                                              *)

\* a bar with open = close = c, high = c + 1, low = c - 1 and volume v
MkBar(t, c, v) == Bar_new(t, QInt(c), QInt(c + 1), QInt(c - 1), QInt(c), v)

ZeroFeeConfig ==
    [initial_capital |-> QInt(100), maker_fee |-> Zero, taker_fee |-> Zero,
     slippage_pct |-> Zero]

FeeConfig ==
    [initial_capital |-> QInt(100), maker_fee |-> <<1, 8>>,
     taker_fee |-> <<1, 4>>, slippage_pct |-> <<1, 4>>]

Configs == {ZeroFeeConfig, FeeConfig}

\* rows handed to load_data, per symbol and in file order
DataSets ==
    { [s \in {"A"} |-> <<MkBar(1, 10, Zero), MkBar(2, 12, Zero)>>],
      [s \in {"A"} |-> <<MkBar(2, 8, Zero), MkBar(1, 10, Zero)>>],
      [s \in {"A", "B"} |-> IF s = "A" THEN <<MkBar(1, 10, Zero), MkBar(2, 12, Zero)>>
                            ELSE <<MkBar(1, 20, Zero)>>],
      [s \in {"A", "B"} |-> IF s = "A" THEN <<MkBar(1, 10, <<1, 10>>)>>
                            ELSE <<MkBar(2, 20, Zero), MkBar(2, 25, Zero)>>] }

Key(t) == to_rfc3339(t)
KeyZ(t) == [t |-> t, offset |-> "Z"]

\* signal lists handed to run
SignalLists ==
    { <<>>,
      << <<Key(1), 1>> >>,
      << <<Key(1), 1>>, <<Key(2), -1>> >>,
      << <<Key(1), 1>>, <<Key(2), 1>> >>,
      << <<Key(2), 1>>, <<Key(1), -1>> >>,
      << <<Key(1), -1>>, <<Key(1), 1>> >>,
      << <<Key(1), 0>>, <<Key(2), 1>> >>,
      << <<KeyZ(1), 1>>, <<Key(2), 1>> >> }

RECURSIVE LoadAll(_, _, _)
\* load_json_data: one load_bars per symbol of the grouped rows
LoadAll(df, ds, syms) ==
    IF syms = {} THEN df
    ELSE LET s == CHOOSE x \in syms : TRUE
         IN  LoadAll(DataFeed_load_bars(df, s, ds[s]), ds, syms \ {s})

Engine_load_data(df, ds) == LoadAll(df, ds, DOMAIN ds)

----------------------------------------------------------------------------
(* State and actions of an engine run.                                     *)

HistInit ==
    [created |-> <<>>,
     submitted |-> <<>>, last_fills |-> <<>>, fills |-> <<>>,
     long_only |-> TRUE, loads |-> 0, loaded |-> None, signals |-> None,
     results |-> <<>>, fresh |-> TRUE, obs |-> None, liquidation |-> <<>>,
     bar_obs |-> None, filled_ids |-> <<>>, market_fills |-> 0,
     stats |-> None, next_obs |-> EmptyMap, curve |-> <<>>, metrics |-> None,
     parsed |-> None, opt |-> EmptyMap]

\* everything but the data feed and the brokerage
InitRest(cfg) ==
    /\ portfolio = Engine_new(cfg).portfolio
    /\ order_manager = Engine_new(cfg).order_manager
    /\ current_prices = Engine_new(cfg).current_prices
    /\ current_time = Engine_new(cfg).current_time
    /\ bars_processed = 0
    /\ running = FALSE
    /\ pc = "idle"
    /\ market_events = <<>>
    /\ signal_map = EmptyMap
    /\ hist = HistInit

InitWith(cfg, iter_order) ==
    /\ config = cfg
    /\ data_feed = DataFeed_new(iter_order)
    /\ brokerage = Engine_new(cfg).brokerage
    /\ InitRest(cfg)

Init == \E cfg \in Configs, o \in Perms(Symbols) : InitWith(cfg, o)

SetComponents(e) ==
    /\ portfolio' = e.portfolio
    /\ brokerage' = e.brokerage
    /\ order_manager' = e.order_manager
    /\ current_prices' = e.current_prices
    /\ current_time' = e.current_time

LoadData(ds) ==
    /\ pc = "idle"
    /\ hist.loaded = None
    /\ hist.results = <<>>
    /\ data_feed' = Engine_load_data(data_feed, ds)
    /\ hist' = [hist EXCEPT !.loaded = <<ds>>]
    /\ UNCHANGED <<config, portfolio, brokerage, order_manager, current_prices,
                   current_time, bars_processed, running, pc, market_events,
                   signal_map>>

\* run, up to the loop over the market events
StartRun(signals) ==
    /\ pc = "idle"
    /\ hist.signals \in {None, <<signals>>}
    /\ running' = TRUE
    /\ bars_processed' = 0
    /\ signal_map' = CollectSignals(signals, EmptyMap)
    /\ LET r == DataFeed_get_aligned_bars(data_feed)
       IN  /\ data_feed' = r.df
           /\ market_events' = r.events
    /\ pc' = "run"
    /\ hist' = [hist EXCEPT !.signals = <<signals>>, !.obs = None,
                            !.liquidation = <<>>]
    /\ UNCHANGED <<config, portfolio, brokerage, order_manager, current_prices,
                   current_time>>

\* the engine and the report r of process_market_data become the state
EventDone(r) ==
    /\ SetComponents(r.e)
    /\ hist' = [hist EXCEPT !.obs = r.obs]

\* one iteration of the loop of run: process_market_data on the next event
ProcessMarketData ==
    /\ pc = "run"
    /\ bars_processed < Len(market_events)
    /\ LET event == market_events[bars_processed + 1]
           F == Fillable(brokerage, event.bar, event.symbol)
       IN  \E visit \in Perms(F), rfs \in [F -> RandomFactors],
              rf \in RandomFactors :
              EventDone(Engine_process_market_data(Components, config, event,
                                                   signal_map, visit, rfs, rf))
    /\ bars_processed' = bars_processed + 1
    /\ UNCHANGED <<config, data_feed, running, pc, market_events, signal_map>>

\* the engine r.e left by close_all_positions becomes the state; its equity
\* curve and trades are the result of the run, which returns Ok(metrics):
\* no step of run produces an Err
RunDone(r) ==
    /\ SetComponents(r.e)
    /\ hist' = [hist EXCEPT
          !.liquidation = r.fills,
          !.results = Append(hist.results,
              [equity_curve |-> r.e.portfolio.equity_curve,
               trades |-> r.e.portfolio.trades,
               fresh |-> hist.fresh, outcome |-> "Ok"])]

\* the rest of run once the events are exhausted: close_all_positions and
\* the result
FinishRun ==
    /\ pc = "run"
    /\ bars_processed = Len(market_events)
    /\ LET L == Liquidated(Components)
       IN  \E visit \in Perms(L), rfs \in [L -> RandomFactors] :
              RunDone(Engine_close_all_positions(Components, visit, rfs))
    /\ running' = FALSE
    /\ pc' = "done"
    /\ UNCHANGED <<config, data_feed, bars_processed, market_events, signal_map>>

Next ==
    \/ \E ds \in DataSets : LoadData(ds)
    \/ \E signals \in SignalLists : StartRun(signals)
    \/ ProcessMarketData
    \/ FinishRun

Spec == Init /\ [][Next]_vars

----------------------------------------------------------------------------
(* A second engine built from the same configuration and rows and run with *)
(* the same signals (run_backtest called again).                           *)

\* BacktestEngine::new and load_data with the configuration and rows of
\* the first engine; the new data feed's HashMap has its own iteration order
NewEngine(iter_order) ==
    /\ pc = "done"
    /\ Len(hist.results) < MaxRuns
    /\ hist.loaded # None
    /\ SetComponents(Engine_new(config))
    /\ data_feed' = Engine_load_data(DataFeed_new(iter_order), hist.loaded[1])
    /\ bars_processed' = 0
    /\ running' = FALSE
    /\ pc' = "idle"
    /\ hist' = [hist EXCEPT !.fresh = TRUE, !.obs = None]
    /\ UNCHANGED <<config, market_events, signal_map>>

NextTwice ==
    \/ Next
    \/ \E o \in Perms(Symbols) : NewEngine(o)

SpecTwice == Init /\ [][NextTwice]_vars

----------------------------------------------------------------------------
(* reset followed by a second run with the same signals.                   *)

Reset ==
    /\ pc = "done"
    /\ Len(hist.results) < MaxRuns
    /\ SetComponents(Engine_reset(Components, config))
    /\ data_feed' = DataFeed_reset(data_feed)
    /\ bars_processed' = 0
    /\ running' = FALSE
    /\ pc' = "idle"
    /\ hist' = [hist EXCEPT !.fresh = FALSE, !.obs = None]
    /\ UNCHANGED <<config, market_events, signal_map>>

\* Brokerage::default brings fees with large denominators; the configured
\* fees are zero and the inputs few, so that the arithmetic of the second
\* run stays within TLC's integers
InitReset == \E o \in Perms(Symbols) : InitWith(ZeroFeeConfig, o)

ResetDataSets ==
    { [s \in {"A"} |-> <<MkBar(1, 10, Zero), MkBar(2, 12, Zero)>>],
      [s \in {"A"} |-> <<MkBar(2, 8, Zero), MkBar(1, 10, <<1, 10>>)>>],
      [s \in {"A", "B"} |-> IF s = "A" THEN <<MkBar(1, 10, Zero)>>
                            ELSE <<MkBar(2, 20, Zero)>>] }

ResetSignalLists ==
    { <<>>,
      << <<Key(1), 1>> >>,
      << <<Key(2), 1>> >>,
      << <<Key(1), 1>>, <<Key(2), -1>> >> }

NextReset ==
    \/ \E ds \in ResetDataSets : LoadData(ds)
    \/ \E signals \in ResetSignalLists : StartRun(signals)
    \/ ProcessMarketData
    \/ FinishRun
    \/ Reset

SpecReset == InitReset /\ [][NextReset]_vars

----------------------------------------------------------------------------
(* Engine runs whose brokerage holds pending limit and stop orders,        *)
(* created through the order manager and submitted before the run.         *)

PendingOrderKinds ==
    { [kind |-> "limit", symbol |-> "A", side |-> "Buy", price |-> QInt(10)],
      [kind |-> "limit", symbol |-> "A", side |-> "Buy", price |-> QInt(8)],
      [kind |-> "stop", symbol |-> "A", side |-> "Sell", price |-> QInt(11)],
      [kind |-> "limit", symbol |-> "B", side |-> "Buy", price |-> QInt(20)] }

SubmitPending(k) ==
    /\ pc = "idle"
    /\ hist.loaded # None
    /\ Len(hist.submitted) < MaxPending
    /\ LET c == IF k.kind = "limit"
                THEN OM_create_limit_order(order_manager, 0, k.symbol, k.side,
                                           One, k.price)
                ELSE OM_create_stop_order(order_manager, 0, k.symbol, k.side,
                                          One, k.price)
           b == Brokerage_submit_order(brokerage, c.order)
       IN  /\ brokerage' = b.brk
           /\ order_manager' = OM_mark_pending(c.om, c.order.id)
           /\ hist' = [hist EXCEPT !.submitted = Append(@, c.order.id)]
    /\ UNCHANGED <<config, data_feed, portfolio, current_prices, current_time,
                   bars_processed, running, pc, market_events, signal_map>>

\* a short position gives averages with large denominators; the runs are
\* kept to one timestamp so that the arithmetic stays within TLC's integers
PendingDataSets ==
    { [s \in {"A"} |-> <<MkBar(1, 10, Zero)>>],
      [s \in {"A", "B"} |-> IF s = "A" THEN <<MkBar(1, 10, Zero)>>
                            ELSE <<MkBar(1, 20, Zero)>>] }

PendingSignalLists ==
    { <<>>, << <<Key(1), 1>> >>, << <<Key(1), -1>> >>, << <<Key(1), 0>> >> }

NextPending ==
    \/ \E ds \in PendingDataSets : LoadData(ds)
    \/ \E signals \in PendingSignalLists : StartRun(signals)
    \/ ProcessMarketData
    \/ FinishRun
    \/ \E k \in PendingOrderKinds : SubmitPending(k)

InitPending == \E o \in Perms(Symbols) : InitWith(ZeroFeeConfig, o)

SpecPending == InitPending /\ [][NextPending]_vars

----------------------------------------------------------------------------
(* The order manager on its own, driven by arbitrary calls.                *)

InitOM == InitWith(ZeroFeeConfig, <<"A", "B">>)

OMStep(om, created) ==
    /\ order_manager' = om
    /\ hist' = [hist EXCEPT !.created = created]
    /\ UNCHANGED engine_vars

CreateMarketOrder(symbol, side) ==
    /\ Len(hist.created) < MaxOrders
    /\ LET c == OM_create_market_order(order_manager, 0, symbol, side, One)
       IN  OMStep(c.om, Append(hist.created, c.order.id))

CreateLimitOrder(symbol, side) ==
    /\ Len(hist.created) < MaxOrders
    /\ LET c == OM_create_limit_order(order_manager, 0, symbol, side, One, QInt(10))
       IN  OMStep(c.om, Append(hist.created, c.order.id))

CreateStopOrder(symbol, side) ==
    /\ Len(hist.created) < MaxOrders
    /\ LET c == OM_create_stop_order(order_manager, 0, symbol, side, One, QInt(10))
       IN  OMStep(c.om, Append(hist.created, c.order.id))

\* the filled and cancelled lists may hold one entry more than there are orders
MarksLeft(n) ==
    Len(order_manager.filled_orders) + Len(order_manager.cancelled_orders) + n
        <= MaxOrders + 1

MarkPending(id) ==
    OMStep(OM_mark_pending(order_manager, id), hist.created)

MarkFilled(id) ==
    /\ MarksLeft(1)
    /\ OMStep(OM_mark_filled(order_manager, id), hist.created)

MarkCancelled(id) ==
    /\ MarksLeft(1)
    /\ OMStep(OM_mark_cancelled(order_manager, id), hist.created)

MarkRejected(id) ==
    OMStep(OM_mark_rejected(order_manager, id), hist.created)

CancelAll ==
    /\ MarksLeft(Len(order_manager.open_orders))
    /\ OMStep(OM_cancel_all(order_manager), hist.created)

CancelOrdersForSymbol(symbol) ==
    /\ MarksLeft(Len(order_manager.open_orders))
    /\ OMStep(OM_cancel_orders_for_symbol(order_manager, symbol), hist.created)

ResetOM ==
    OMStep(OM_reset(order_manager), <<>>)

\* ids passed to mark_*: those handed out so far and one that was not
MarkIds == 1..order_manager.next_id

NextOM ==
    \/ CreateMarketOrder("A", "Buy")
    \/ CreateLimitOrder("B", "Buy")
    \/ CreateStopOrder("A", "Sell")
    \/ \E id \in MarkIds : MarkPending(id)
    \/ \E id \in MarkIds : MarkFilled(id)
    \/ \E id \in MarkIds : MarkCancelled(id)
    \/ \E id \in MarkIds : MarkRejected(id)
    \/ CancelAll
    \/ \E symbol \in Symbols : CancelOrdersForSymbol(symbol)
    \/ ResetOM

SpecOM == InitOM /\ [][NextOM]_vars

----------------------------------------------------------------------------
(* The brokerage on its own: orders submitted, bars processed.             *)

BrokerageConfigs ==
    { [BrokerageConfig_default EXCEPT
          !.maker_fee = <<1, 8>>, !.taker_fee = <<1, 4>>,
          !.slippage_fixed = <<1, 2>>, !.slippage_pct = <<1, 4>>,
          !.realistic_fills = r] : r \in BOOLEAN }

\* a fixed slippage above the prices of the bars
WideSlippageConfig ==
    [BrokerageConfig_default EXCEPT
        !.maker_fee = <<1, 8>>, !.taker_fee = <<1, 4>>,
        !.slippage_fixed = QInt(24), !.slippage_pct = Zero]

\* an engine configuration with negative fees and slippage
NegativeFeeConfig ==
    [initial_capital |-> QInt(100), maker_fee |-> <<-1, 8>>,
     taker_fee |-> <<-1, 4>>, slippage_pct |-> <<-1, 4>>]

\* the brokerages of the runs: built directly from a BrokerageConfig, or by
\* BacktestEngine::new from an engine configuration
Brokerages ==
    {Brokerage_new(bc) : bc \in BrokerageConfigs \cup {WideSlippageConfig}}
        \cup {Engine_new(NegativeFeeConfig).brokerage}

\* orders a caller builds; the caller numbers them 1, 2, ...
BrkOrders(id) ==
    { OrderEvent_limit(id, 0, "A", "Buy", One, QInt(10)),
      OrderEvent_limit(id, 0, "A", "Sell", One, QInt(12)),
      OrderEvent_stop(id, 0, "A", "Sell", One, QInt(9)),
      OrderEvent_stop(id, 0, "A", "Buy", One, QInt(13)),
      OrderEvent_stop_limit(id, 0, "A", "Buy", One, QInt(11), QInt(10)),
      OrderEvent_stop_limit(id, 0, "A", "Sell", One, QInt(11), QInt(12)),
      OrderEvent_limit(id, 0, "B", "Buy", One, QInt(10)),
      OrderEvent_market(id, 0, "A", "Buy", One) }

BrkBars == {MkBar(1, 10, Zero), MkBar(2, 12, <<1, 10>>)}

InitBrk ==
    /\ config = ZeroFeeConfig
    /\ data_feed = DataFeed_new(<<"A", "B">>)
    /\ brokerage \in Brokerages
    /\ InitRest(ZeroFeeConfig)

\* the orders handed to the brokerage so far, submitted or executed directly
BrkOrdersHanded == Len(hist.submitted) + hist.market_fills

BrkSubmitOrder(order) ==
    /\ BrkOrdersHanded < MaxPending
    /\ brokerage' = Brokerage_submit_order(brokerage, order).brk
    /\ hist' = [hist EXCEPT !.submitted = Append(@, order.id),
                            !.last_fills = <<>>, !.bar_obs = None]
    /\ UNCHANGED <<config, data_feed, portfolio, order_manager, current_prices,
                   current_time, bars_processed, running, pc, market_events,
                   signal_map>>

\* the brokerage and the fills r of process_bar become the state; bar_obs
\* keeps the call and the brokerage it met, filled_ids the order of every
\* fill so far
BarDone(bar, symbol, r) ==
    /\ brokerage' = r.brk
    /\ hist' = [hist EXCEPT
          !.last_fills = r.fills,
          !.bar_obs = [call |-> "process_bar", bar |-> bar, symbol |-> symbol,
                       before |-> brokerage,
                       orders |-> brokerage.pending_orders],
          !.filled_ids = @ \o [i \in DOMAIN r.fills |-> r.fills[i].order_id]]

BrkProcessBar(bar, symbol) ==
    /\ LET F == Fillable(brokerage, bar, symbol)
       IN  \E visit \in Perms(F), rfs \in [F -> RandomFactors] :
              BarDone(bar, symbol,
                      Brokerage_process_bar(brokerage, bar, symbol, visit, rfs))
    /\ UNCHANGED <<config, data_feed, portfolio, order_manager, current_prices,
                   current_time, bars_processed, running, pc, market_events,
                   signal_map>>

\* the brokerage and the fill of execute_market_order become the state
MarketDone(order, bar, r) ==
    /\ brokerage' = r.brk
    /\ hist' = [hist EXCEPT
          !.last_fills = IF r.fill = None THEN <<>> ELSE <<r.fill>>,
          !.bar_obs = [call |-> "execute_market_order", bar |-> bar,
                       symbol |-> order.symbol, before |-> brokerage,
                       orders |-> MapInsert(EmptyMap, order.id, order)],
          !.market_fills = @ + 1]

BrkExecuteMarketOrder(order, bar) ==
    /\ BrkOrdersHanded < MaxPending
    /\ \E rf \in RandomFactors :
          MarketDone(order, bar,
                     Brokerage_execute_market_order(brokerage, order, bar, rf))
    /\ UNCHANGED <<config, data_feed, portfolio, order_manager, current_prices,
                   current_time, bars_processed, running, pc, market_events,
                   signal_map>>

\* market orders a caller executes directly; their ids lie above those of
\* the submitted orders
BrkMarketOrders ==
    {OrderEvent_market(MaxPending + 2, 0, "A", side, One) : side \in Sides}

NextBrk ==
    \/ \E order \in BrkOrders(Len(hist.submitted) + 1) : BrkSubmitOrder(order)
    \/ \E bar \in BrkBars, symbol \in Symbols : BrkProcessBar(bar, symbol)
    \/ \E order \in BrkMarketOrders, bar \in BrkBars :
          BrkExecuteMarketOrder(order, bar)

SpecBrk == InitBrk /\ [][NextBrk]_vars

----------------------------------------------------------------------------
(* The portfolio on its own, handed arbitrary fills.                       *)

PfFill(n, symbol, side, quantity, price, commission, slippage) ==
    [id |-> n, order_id |-> n, timestamp |-> n, symbol |-> symbol,
     side |-> side, quantity |-> quantity, fill_price |-> price,
     commission |-> commission, slippage |-> slippage]

PfFills(n) ==
    {PfFill(n, "A", side, QInt(q), QInt(p), c[1], c[2]) :
        side \in Sides, q \in {1, 2}, p \in {10, 12},
        c \in {<<Zero, Zero>>, <<One, <<1, 2>>>>}}
    \cup {PfFill(n, "B", side, One, QInt(20), One, <<1, 2>>) : side \in Sides}

HeldQuantity(pf, symbol) ==
    IF symbol \in DOMAIN pf.positions THEN pf.positions[symbol].quantity
    ELSE Zero

InitPf == InitWith(ZeroFeeConfig, <<"A", "B">>)

PfProcessFill(fill) ==
    /\ Len(hist.fills) < MaxFills
    /\ portfolio' = Portfolio_process_fill(portfolio, fill)
    /\ hist' = [hist EXCEPT
          !.fills = Append(@, fill),
          !.long_only = @ /\ (fill.side = "Sell" =>
                                QLe(fill.quantity,
                                    HeldQuantity(portfolio, fill.symbol)))]
    /\ UNCHANGED <<config, data_feed, brokerage, order_manager, current_prices,
                   current_time, bars_processed, running, pc, market_events,
                   signal_map>>

NextPf ==
    \E fill \in PfFills(Len(hist.fills) + 1) : PfProcessFill(fill)

SpecPf == InitPf /\ [][NextPf]_vars

----------------------------------------------------------------------------
(* The portfolio on its own, marked to market and recorded between fills.  *)

EqFills(n) ==
    { PfFill(n, "A", "Buy", One, QInt(10), Zero, Zero),
      PfFill(n, "A", "Sell", One, QInt(12), One, <<1, 2>>) }

\* the price maps handed to update_market_values
EqPrices == {MapInsert(EmptyMap, "A", QInt(p)) : p \in {8, 12}}

EqUpdateMarketValues(prices) ==
    /\ portfolio.positions # EmptyMap
    /\ portfolio' = Portfolio_update_market_values(portfolio, prices)
    /\ UNCHANGED <<config, data_feed, brokerage, order_manager, current_prices,
                   current_time, bars_processed, running, pc, market_events,
                   signal_map, hist>>

EqRecordEquity ==
    /\ Len(portfolio.equity_curve) < MaxPoints
    /\ portfolio' = Portfolio_record_equity(portfolio,
                                            Len(portfolio.equity_curve) + 1)
    /\ UNCHANGED <<config, data_feed, brokerage, order_manager, current_prices,
                   current_time, bars_processed, running, pc, market_events,
                   signal_map, hist>>

NextEq ==
    \/ \E fill \in EqFills(Len(hist.fills) + 1) : PfProcessFill(fill)
    \/ \E prices \in EqPrices : EqUpdateMarketValues(prices)
    \/ EqRecordEquity

SpecEq == InitPf /\ [][NextEq]_vars

----------------------------------------------------------------------------
(* The portfolio on its own, trading one symbol in both directions.        *)

TrFills(n) ==
    {PfFill(n, "A", side, QInt(q), QInt(p), Zero, Zero) :
        side \in Sides, q \in {1, 2}, p \in {10, 12}}
    \cup {PfFill(n, "A", side, One, QInt(10), One, Zero) : side \in Sides}

TrProcessFill(fill) ==
    /\ Len(hist.fills) < MaxTradeFills
    /\ portfolio' = Portfolio_process_fill(portfolio, fill)
    /\ hist' = [hist EXCEPT !.fills = Append(@, fill), !.stats = None]
    /\ UNCHANGED <<config, data_feed, brokerage, order_manager, current_prices,
                   current_time, bars_processed, running, pc, market_events,
                   signal_map>>

\* a caller reads the statistics of the ledger
TrTradeStats ==
    /\ hist' = [hist EXCEPT !.stats = Portfolio_trade_stats(portfolio)]
    /\ UNCHANGED <<config, data_feed, brokerage, order_manager, current_prices,
                   current_time, bars_processed, running, pc, market_events,
                   signal_map, portfolio>>

NextTr ==
    \/ \E fill \in TrFills(Len(hist.fills) + 1) : TrProcessFill(fill)
    \/ TrTradeStats

SpecTr == InitPf /\ [][NextTr]_vars

----------------------------------------------------------------------------
(* The data feed on its own.                                               *)

DFBarLists ==
    { <<MkBar(1, 10, Zero)>>,
      <<MkBar(2, 12, Zero), MkBar(1, 10, Zero)>>,
      <<MkBar(1, 10, Zero), MkBar(1, 11, Zero)>>,
      <<MkBar(3, 9, Zero), MkBar(2, 12, Zero)>> }

InitDF == \E o \in Perms(Symbols) : InitWith(ZeroFeeConfig, o)

DFLoadBars(symbol, bars) ==
    /\ hist.loads < MaxLoads
    /\ data_feed' = DataFeed_load_bars(data_feed, symbol, bars)
    /\ pc' = "idle"
    /\ hist' = [hist EXCEPT !.loads = @ + 1]
    /\ UNCHANGED <<config, portfolio, brokerage, order_manager, current_prices,
                   current_time, bars_processed, running, market_events,
                   signal_map>>

DFGetAlignedBars ==
    /\ LET r == DataFeed_get_aligned_bars(data_feed)
       IN  /\ r.df.event_id <= MaxEventId
           /\ data_feed' = r.df
           /\ market_events' = r.events
    /\ pc' = "aligned"
    /\ UNCHANGED <<config, portfolio, brokerage, order_manager, current_prices,
                   current_time, bars_processed, running, signal_map, hist>>

DFReset ==
    /\ data_feed' = DataFeed_reset(data_feed)
    /\ UNCHANGED <<config, portfolio, brokerage, order_manager, current_prices,
                   current_time, bars_processed, running, pc, market_events,
                   signal_map, hist>>

NextDF ==
    \/ \E symbol \in Symbols, bars \in DFBarLists : DFLoadBars(symbol, bars)
    \/ DFGetAlignedBars
    \/ DFReset

SpecDF == InitDF /\ [][NextDF]_vars

----------------------------------------------------------------------------
(* The data feed enumerated bar by bar.                                    *)

NbBarLists ==
    DFBarLists \cup
        { <<MkBar(2, 12, Zero), MkBar(1, 10, Zero), MkBar(1, 11, Zero)>>,
          <<MkBar(2, 12, Zero), MkBar(1, 10, Zero), MkBar(2, 9, Zero)>> }

\* next_obs keeps, per symbol, the bars of its last load and what every
\* next_bar call since then returned
NbLoadBars(symbol, bars) ==
    /\ hist.loads < MaxLoads
    /\ data_feed' = DataFeed_load_bars(data_feed, symbol, bars)
    /\ hist' = [hist EXCEPT
          !.loads = @ + 1,
          !.next_obs = MapInsert(@, symbol, [bars |-> bars, out |-> <<>>])]
    /\ UNCHANGED <<config, portfolio, brokerage, order_manager, current_prices,
                   current_time, bars_processed, running, pc, market_events,
                   signal_map>>

\* the feed and the event r of next_bar become the state
NbNextDone(symbol, r) ==
    /\ data_feed' = r.df
    /\ hist' = [hist EXCEPT !.next_obs[symbol].out = Append(@, r.event)]

NbNextBar(symbol) ==
    /\ symbol \in DOMAIN hist.next_obs
    /\ Len(hist.next_obs[symbol].out) < Len(hist.next_obs[symbol].bars) + 2
    /\ NbNextDone(symbol, DataFeed_next_bar(data_feed, symbol))
    /\ UNCHANGED <<config, portfolio, brokerage, order_manager, current_prices,
                   current_time, bars_processed, running, pc, market_events,
                   signal_map>>

NextNb ==
    \/ \E symbol \in Symbols, bars \in NbBarLists : NbLoadBars(symbol, bars)
    \/ \E symbol \in Symbols : NbNextBar(symbol)

SpecNb == InitDF /\ [][NextNb]_vars

----------------------------------------------------------------------------
(* The metrics calculator on its own, handed equity curves point by point. *)

MxEquities == {QInt(90), QInt(95), QInt(100), QInt(110)}

\* trade statistics handed to calculate
MxTradeStats ==
    { TradeStats_default,
      Portfolio_stats_of(1, 1, 0, QInt(5), Zero, QInt(5), Zero) }

\* the caller's curve grows by a point with the given equity, all in cash
MxPushPoint(equity) ==
    /\ Len(hist.curve) < MaxCurve
    /\ hist' = [hist EXCEPT
          !.curve = Append(@, [timestamp |-> Len(hist.curve) + 1,
                               equity |-> equity, cash |-> equity,
                               positions_value |-> Zero, drawdown |-> Zero,
                               drawdown_pct |-> Zero]),
          !.metrics = None]
    /\ UNCHANGED <<config, data_feed, portfolio, brokerage, order_manager,
                   current_prices, current_time, bars_processed, running, pc,
                   market_events, signal_map>>

\* calculate on the curve; metrics keeps the statistics handed in and the
\* result
MxCalculate(trade_stats) ==
    /\ hist' = [hist EXCEPT !.metrics =
          [trade_stats |-> trade_stats,
           result |-> MetricsCalculator_calculate(hist.curve, trade_stats)]]
    /\ UNCHANGED <<config, data_feed, portfolio, brokerage, order_manager,
                   current_prices, current_time, bars_processed, running, pc,
                   market_events, signal_map>>

NextMx ==
    \/ \E equity \in MxEquities : MxPushPoint(equity)
    \/ \E trade_stats \in MxTradeStats : MxCalculate(trade_stats)

SpecMx == InitPf /\ [][NextMx]_vars

----------------------------------------------------------------------------
(* The two timestamp parsers handed integer timestamps.                    *)

\* integers around the threshold, a date in seconds and one in milliseconds
TsInputs ==
    {Wide(k, r) :
        k \in {0, 1, 1700000, 9999999, 10000000, 10000001, 10000999,
               20000000, 1700000000},
        r \in {0, 1, 2, 500, 998, 999}}

TsParsed(parser, ts, secs) ==
    /\ hist' = [hist EXCEPT !.parsed =
                   [parser |-> parser, ts |-> ts, secs |-> secs]]
    /\ UNCHANGED <<config, data_feed, portfolio, brokerage, order_manager,
                   current_prices, current_time, bars_processed, running, pc,
                   market_events, signal_map>>

TsDataFeedParse(ts) == TsParsed("datafeed", ts, DataFeed_parse_timestamp(ts))

TsEngineParse(ts) == TsParsed("engine", ts, Engine_parse_timestamp(ts))

NextTs ==
    \/ \E ts \in TsInputs : TsDataFeedParse(ts)
    \/ \E ts \in TsInputs : TsEngineParse(ts)

SpecTs == InitPf /\ [][NextTs]_vars

----------------------------------------------------------------------------
(* run_optimization (lib.rs): one engine per parameter combination.  In    *)
(* this specification every engine variable holds one value per worker.    *)
(* Worker 0 is a call with a single combination, which runs alone; workers *)
(* 1 and 2 are the two combinations of a later call and run in parallel.   *)
(* Each closure runs inside Python::with_gil; the workers are interleaved  *)
(* step by step here, which covers the executions the lock allows.         *)

OptWorkers == {0, 1, 2}
OptParallel == {1, 2}

\* the rows at data_path, read by every worker
OptRows == [s \in {"A"} |-> <<MkBar(1, 10, QInt(10)), MkBar(2, 12, QInt(10))>>]

\* signals_generator called with the combination c
OptSignals(c) ==
    IF c = 1 THEN << <<Key(1), 1>> >>
    ELSE << <<Key(1), 1>>, <<Key(2), -1>> >>

\* the engine of worker w as one value
OptEngine(w) ==
    [portfolio |-> portfolio[w], brokerage |-> brokerage[w],
     order_manager |-> order_manager[w],
     current_prices |-> current_prices[w], current_time |-> current_time[w]]

InitOpt ==
    /\ config = ZeroFeeConfig
    /\ data_feed = [w \in OptWorkers |-> None]
    /\ portfolio = [w \in OptWorkers |-> None]
    /\ brokerage = [w \in OptWorkers |-> None]
    /\ order_manager = [w \in OptWorkers |-> None]
    /\ current_prices = [w \in OptWorkers |-> None]
    /\ current_time = [w \in OptWorkers |-> None]
    /\ bars_processed = [w \in OptWorkers |-> 0]
    /\ running = [w \in OptWorkers |-> FALSE]
    /\ pc = [w \in OptWorkers |-> "idle"]
    /\ market_events = [w \in OptWorkers |-> <<>>]
    /\ signal_map = [w \in OptWorkers |-> EmptyMap]
    /\ hist = [HistInit EXCEPT !.opt =
                  [w \in OptWorkers |-> [combination |-> 0, result |-> None]]]

\* the engine e becomes the engine of worker w
OptSetEngine(w, e) ==
    /\ portfolio' = [portfolio EXCEPT ![w] = e.portfolio]
    /\ brokerage' = [brokerage EXCEPT ![w] = e.brokerage]
    /\ order_manager' = [order_manager EXCEPT ![w] = e.order_manager]
    /\ current_prices' = [current_prices EXCEPT ![w] = e.current_prices]
    /\ current_time' = [current_time EXCEPT ![w] = e.current_time]

\* the aligned events r of the worker's own data feed
OptAligned(w, r) ==
    /\ data_feed' = [data_feed EXCEPT ![w] = r.df]
    /\ market_events' = [market_events EXCEPT ![w] = r.events]

\* the closure of worker w up to the loop of run: the signals of its
\* combination, BacktestEngine::new, load_data and the head of run
OptStart(w, c) ==
    /\ pc[w] = "idle"
    /\ w \in OptParallel => pc[0] = "done"
    /\ OptSetEngine(w, Engine_new(config))
    /\ OptAligned(w, DataFeed_get_aligned_bars(
                         Engine_load_data(DataFeed_new(<<"A", "B">>), OptRows)))
    /\ signal_map' = [signal_map EXCEPT ![w] =
                         CollectSignals(OptSignals(c), EmptyMap)]
    /\ running' = [running EXCEPT ![w] = TRUE]
    /\ bars_processed' = [bars_processed EXCEPT ![w] = 0]
    /\ pc' = [pc EXCEPT ![w] = "run"]
    /\ hist' = [hist EXCEPT !.opt[w].combination = c]
    /\ UNCHANGED config

\* one iteration of the loop of run in worker w
OptEvent(w) ==
    /\ pc[w] = "run"
    /\ bars_processed[w] < Len(market_events[w])
    /\ \E rf \in RandomFactors :
          OptSetEngine(w,
              Engine_process_market_data(OptEngine(w), config,
                  market_events[w][bars_processed[w] + 1], signal_map[w],
                  <<>>, EmptyMap, rf).e)
    /\ bars_processed' = [bars_processed EXCEPT ![w] = @ + 1]
    /\ UNCHANGED <<config, data_feed, running, pc, market_events, signal_map,
                   hist>>

\* the engine r.e left by close_all_positions and the result of worker w
OptDone(w, r) ==
    /\ OptSetEngine(w, r.e)
    /\ hist' = [hist EXCEPT !.opt[w].result =
                   [equity_curve |-> r.e.portfolio.equity_curve,
                    trades |-> r.e.portfolio.trades]]

\* the rest of run in worker w and the pair the closure returns
OptFinish(w) ==
    /\ pc[w] = "run"
    /\ bars_processed[w] = Len(market_events[w])
    /\ LET L == Liquidated(OptEngine(w))
       IN  \E visit \in Perms(L), rfs \in [L -> RandomFactors] :
              OptDone(w, Engine_close_all_positions(OptEngine(w), visit, rfs))
    /\ running' = [running EXCEPT ![w] = FALSE]
    /\ pc' = [pc EXCEPT ![w] = "done"]
    /\ UNCHANGED <<config, data_feed, bars_processed, market_events,
                   signal_map>>

NextOpt ==
    \/ \E c \in OptParallel : OptStart(0, c)
    \/ \E w \in OptParallel : OptStart(w, w)
    \/ \E w \in OptWorkers : OptEvent(w)
    \/ \E w \in OptWorkers : OptFinish(w)

SpecOpt == InitOpt /\ [][NextOpt]_vars

----------------------------------------------------------------------------
(* Properties.                                                             *)

\* C1: within one market event the fills of the pending orders are applied
\* to the portfolio before the signal is acted on: the cash the order size
\* is computed from is the cash left by those fills, and the fill of the
\* signal's market order is emitted after them.  (SpecPending)
C1_PendingFillsBeforeSignal ==
    hist.obs # None =>
        /\ hist.obs.cash_after_pending =
              Portfolio_process_fills(hist.obs.before, hist.obs.pending_fills).cash
        /\ hist.obs.sized_cash # None =>
              hist.obs.sized_cash = hist.obs.cash_after_pending
        /\ hist.obs.signal_fill # None =>
              \A i \in DOMAIN hist.obs.pending_fills :
                  hist.obs.pending_fills[i].id < hist.obs.signal_fill.id

\* a pending order was filled on the bar whose signal bought
C1_Witness ==
    /\ hist.obs # None
    /\ hist.obs.pending_fills # <<>>
    /\ hist.obs.sized_cash # None
    /\ hist.obs.signal_fill # None
    /\ hist.obs.cash_after_pending # hist.obs.before.cash

\* fees paid by the fills processed so far: commissions plus |slippage|
FeesPaid ==
    QSum([i \in DOMAIN hist.fills |->
            QAdd(hist.fills[i].commission, QAbs(hist.fills[i].slippage))])

\* the part of the fees that is not already inside the realized P&L: the
\* commissions of the buys and the slippage of every fill
FeesOutsidePnl ==
    QSum([i \in DOMAIN hist.fills |->
            QAdd(IF hist.fills[i].side = "Buy" THEN hist.fills[i].commission
                 ELSE Zero,
                 QAbs(hist.fills[i].slippage))])

RECURSIVE PositionsAtCost(_, _)
\* sum over the positions of quantity x average_price
PositionsAtCost(pf, S) ==
    IF S = {} THEN Zero
    ELSE LET s == CHOOSE x \in S : TRUE
         IN  QAdd(QMul(pf.positions[s].quantity, pf.positions[s].average_price),
                  PositionsAtCost(pf, S \ {s}))

RealizedPnl(pf) == SumOver(pf.positions, DOMAIN pf.positions, "realized_pnl")

\* C2 as stated: cash + sum(quantity x average_price) + sum(realized P&L)
\* + sum(fees paid) = initial_capital after any sequence of fills.  (SpecPf)
C2_CashConservation ==
    QAdd(QAdd(QAdd(portfolio.cash,
                   PositionsAtCost(portfolio, DOMAIN portfolio.positions)),
              RealizedPnl(portfolio)),
         FeesPaid) = portfolio.initial_capital

\* C2 amended: while no sell exceeds the quantity held, cash + sum(quantity
\* x average_price) - sum(realized P&L) + buy commissions + slippage of
\* every fill = initial_capital.  (SpecPf)
C2_CashConservationAmended ==
    hist.long_only =>
        QAdd(QSub(QAdd(portfolio.cash,
                       PositionsAtCost(portfolio, DOMAIN portfolio.positions)),
                  RealizedPnl(portfolio)),
             FeesOutsidePnl) = portfolio.initial_capital

\* a buy with fees, a partial sell at another price and a closing sell
C2_Witness ==
    /\ hist.long_only
    /\ Len(hist.fills) = MaxFills
    /\ \E i \in DOMAIN hist.fills :
          hist.fills[i].side = "Sell" /\ hist.fills[i].commission # Zero
    /\ portfolio.total_realized_pnl # Zero
    /\ portfolio.cash # portfolio.initial_capital

RECURSIVE PositionsAtLastPrice(_, _, _)
\* sum over the positions of quantity x last observed price of the symbol
PositionsAtLastPrice(pf, prices, S) ==
    IF S = {} THEN Zero
    ELSE LET s == CHOOSE x \in S : TRUE
         IN  QAdd(QMul(pf.positions[s].quantity,
                       IF s \in DOMAIN prices THEN prices[s] ELSE Zero),
                  PositionsAtLastPrice(pf, prices, S \ {s}))

\* C3: in every state of a run total_equity() = cash + sum over positions
\* of quantity x last observed price.  (Spec)
C3_EquityIdentity ==
    Portfolio_total_equity(portfolio) =
        QAdd(portfolio.cash,
             PositionsAtLastPrice(portfolio, current_prices,
                                  DOMAIN portfolio.positions))

\* C4: a mark_* call on an order whose status is Filled, Cancelled or
\* Rejected leaves the order manager unchanged.  (SpecOM)
C4_TerminalAbsorbing ==
    [][\A id \in MarkIds :
          (/\ id \in DOMAIN order_manager.orders
           /\ order_manager.orders[id].status \in Terminal
           /\ \/ MarkPending(id)
              \/ MarkFilled(id)
              \/ MarkCancelled(id)
              \/ MarkRejected(id))
          => order_manager' = order_manager]_vars

\* C5: every order of the map is in exactly one of the open, filled and
\* cancelled lists, once, and its status agrees with that list.  (SpecOM)
C5_ListsPartition ==
    \A id \in DOMAIN order_manager.orders :
        LET o == Count(order_manager.open_orders, id)
            f == Count(order_manager.filled_orders, id)
            c == Count(order_manager.cancelled_orders, id)
            status == order_manager.orders[id].status
        IN  /\ o + f + c = 1
            /\ o = 1 => status \in {"Submitted", "Pending"}
            /\ f = 1 => status = "Filled"
            /\ c = 1 => status = "Cancelled"

\* C6: two runs of engines built from the same configuration, rows and
\* signals give the same equity curve and the same trade ledger.  (SpecTwice)
C6_Deterministic ==
    \A i, j \in DOMAIN hist.results :
        /\ hist.results[i].equity_curve = hist.results[j].equity_curve
        /\ hist.results[i].trades = hist.results[j].trades

\* the data feed of an engine built with the loaded rows and a HashMap
\* iterating in the same order
FreshFeed ==
    IF hist.loaded = None THEN DataFeed_new(data_feed.iter_order)
    ELSE Engine_load_data(DataFeed_new(data_feed.iter_order), hist.loaded[1])

\* C7: after reset the portfolio, brokerage, order manager and data feed
\* equal those of a newly built engine with the same configuration and
\* rows, and the run after the reset repeats the result.  (SpecReset)
C7_ResetRestores ==
    /\ (pc = "idle" /\ ~hist.fresh) =>
          /\ Components = Engine_new(config)
          /\ data_feed = FreshFeed
    /\ Len(hist.results) >= 2 =>
          /\ hist.results[1].equity_curve = hist.results[2].equity_curve
          /\ hist.results[1].trades = hist.results[2].trades

\* C8: the ids of the orders created since the last reset are strictly
\* increasing in creation order, whatever mark_* and cancel calls come
\* between.  (SpecOM)
C8_OrderIdsIncreasing ==
    \A i, j \in DOMAIN hist.created :
        i < j => hist.created[i] < hist.created[j]

\* two orders created with a fill and a cancellation recorded
C8_Witness ==
    /\ Len(hist.created) >= 2
    /\ order_manager.filled_orders # <<>>
    /\ order_manager.cancelled_orders # <<>>

\* C9: the aligned stream is ordered by timestamp and, within a timestamp,
\* by symbol, and holds exactly one event per (timestamp, symbol) that has
\* a bar.  (SpecDF)
C9_AlignedOrder ==
    pc = "aligned" =>
        /\ \A i, j \in DOMAIN market_events :
              i < j =>
                \/ market_events[i].bar.timestamp < market_events[j].bar.timestamp
                \/ /\ market_events[i].bar.timestamp = market_events[j].bar.timestamp
                   /\ SymRank[market_events[i].symbol] < SymRank[market_events[j].symbol]
        /\ \A s \in DOMAIN data_feed.data :
              \A k \in DOMAIN data_feed.data[s] :
                 Cardinality({i \in DOMAIN market_events :
                                /\ market_events[i].symbol = s
                                /\ market_events[i].bar.timestamp =
                                      data_feed.data[s][k].timestamp}) = 1
        /\ \A i \in DOMAIN market_events :
              /\ market_events[i].symbol \in DOMAIN data_feed.data
              /\ market_events[i].bar \in Range(data_feed.data[market_events[i].symbol])

\* index of the submission of order id to the brokerage
SubmissionIndex(id) == CHOOSE i \in DOMAIN hist.submitted : hist.submitted[i] = id

\* C10: process_bar returns the fills in the order in which the orders
\* were submitted, with fill ids increasing in that order.  (SpecBrk)
C10_FillsInInsertionOrder ==
    \A i, j \in DOMAIN hist.last_fills :
        i < j =>
            /\ SubmissionIndex(hist.last_fills[i].order_id)
                  < SubmissionIndex(hist.last_fills[j].order_id)
            /\ hist.last_fills[i].id < hist.last_fills[j].id

----------------------------------------------------------------------------
(* Properties of the brokerage's fills.                                    *)

\* the fills of the last call that belong to order id
FillsOf(id) == {i \in DOMAIN hist.last_fills : hist.last_fills[i].order_id = id}

\* the price a fill had before the slippage was applied
BasePrice(fill) ==
    IF fill.side = "Buy" THEN QSub(fill.fill_price, fill.slippage)
    ELSE QAdd(fill.fill_price, fill.slippage)

\* the last call was process_bar
BarProcessed == hist.bar_obs # None /\ hist.bar_obs.call = "process_bar"

\* the orders of the given type that were pending for the symbol of the bar
\* when process_bar was called
PendingOfType(type) ==
    {id \in DOMAIN hist.bar_obs.orders :
        /\ hist.bar_obs.orders[id].order_type = type
        /\ hist.bar_obs.orders[id].symbol = hist.bar_obs.symbol}

\* C11: a pending order is filled at most once over all process_bar calls;
\* the orders a call fills leave the pending set in that call, the others
\* stay pending unchanged.  (SpecBrk)
C11_AtMostOneFill ==
    /\ \A i, j \in DOMAIN hist.filled_ids :
          i # j => hist.filled_ids[i] # hist.filled_ids[j]
    /\ BarProcessed =>
          LET filled == {hist.last_fills[i].order_id : i \in DOMAIN hist.last_fills}
              before == hist.bar_obs.before.pending_orders
          IN  /\ filled \subseteq DOMAIN before
              /\ \A id \in filled : before[id].symbol = hist.bar_obs.symbol
              /\ \A id \in filled : Cardinality(FillsOf(id)) = 1
              /\ DOMAIN brokerage.pending_orders = (DOMAIN before) \ filled
              /\ \A id \in DOMAIN brokerage.pending_orders :
                    brokerage.pending_orders[id] = before[id]

\* one order was filled by an earlier bar, and a later bar left another
\* order pending
C11_Witness ==
    /\ BarProcessed
    /\ hist.filled_ids # <<>>
    /\ hist.last_fills = <<>>
    /\ \E id \in DOMAIN brokerage.pending_orders :
          brokerage.pending_orders[id].symbol = hist.bar_obs.symbol

\* C12: a pending Limit order is filled by a bar of its symbol exactly when
\* low <= limit (Buy) or high >= limit (Sell); the base price of the fill
\* is the limit price, which is the fill price when slippage is disabled.
\* (SpecBrk)
C12_LimitFill ==
    BarProcessed =>
        \A id \in PendingOfType("Limit") :
            LET order == hist.bar_obs.orders[id]
                bar == hist.bar_obs.bar
            IN  /\ FillsOf(id) # {} <=>
                      \/ order.side = "Buy" /\ QLe(bar.low, order.limit_price)
                      \/ order.side = "Sell" /\ QGe(bar.high, order.limit_price)
                /\ \A i \in FillsOf(id) :
                      /\ BasePrice(hist.last_fills[i]) = order.limit_price
                      /\ ~hist.bar_obs.before.config.realistic_fills =>
                            hist.last_fills[i].fill_price = order.limit_price

\* one Limit order filled with slippage at a bar that left another Limit
\* order of the symbol unfilled
C12_Witness ==
    /\ BarProcessed
    /\ \E id \in PendingOfType("Limit") :
          /\ FillsOf(id) # {}
          /\ \E i \in FillsOf(id) : hist.last_fills[i].slippage # Zero
    /\ \E id \in PendingOfType("Limit") : FillsOf(id) = {}

\* C13: a pending Stop order is filled by a bar of its symbol exactly when
\* high >= stop (Buy) or low <= stop (Sell); the base price of the fill is
\* the close of the bar.  (SpecBrk)
C13_StopFill ==
    BarProcessed =>
        \A id \in PendingOfType("Stop") :
            LET order == hist.bar_obs.orders[id]
                bar == hist.bar_obs.bar
            IN  /\ FillsOf(id) # {} <=>
                      \/ order.side = "Buy" /\ QGe(bar.high, order.stop_price)
                      \/ order.side = "Sell" /\ QLe(bar.low, order.stop_price)
                /\ \A i \in FillsOf(id) :
                      BasePrice(hist.last_fills[i]) = bar.close

\* a Stop order filled at a close different from its stop price while
\* another Stop order of the symbol was not triggered
C13_Witness ==
    /\ BarProcessed
    /\ \E id \in PendingOfType("Stop") :
          /\ FillsOf(id) # {}
          /\ hist.bar_obs.orders[id].stop_price # hist.bar_obs.bar.close
    /\ \E id \in PendingOfType("Stop") : FillsOf(id) = {}

\* the bar of the last call triggers the stop of the order
StopTriggered(order) ==
    \/ order.side = "Buy" /\ QGe(hist.bar_obs.bar.high, order.stop_price)
    \/ order.side = "Sell" /\ QLe(hist.bar_obs.bar.low, order.stop_price)

\* C14: a pending StopLimit order is filled by a bar exactly when the bar
\* triggers the stop and reaches the limit; the base price is the limit
\* price; otherwise the order stays pending as it was.  (SpecBrk)
C14_StopLimitFill ==
    BarProcessed =>
        \A id \in PendingOfType("StopLimit") :
            LET order == hist.bar_obs.orders[id]
                bar == hist.bar_obs.bar
            IN  /\ FillsOf(id) # {} <=>
                      /\ StopTriggered(order)
                      /\ \/ order.side = "Buy" /\ QLe(bar.low, order.limit_price)
                         \/ order.side = "Sell" /\ QGe(bar.high, order.limit_price)
                /\ \A i \in FillsOf(id) :
                      BasePrice(hist.last_fills[i]) = order.limit_price
                /\ FillsOf(id) = {} =>
                      /\ id \in DOMAIN brokerage.pending_orders
                      /\ brokerage.pending_orders[id] = order

\* a bar triggered the stop of a StopLimit order without reaching its limit
C14_Witness ==
    /\ BarProcessed
    /\ \E id \in PendingOfType("StopLimit") :
          /\ StopTriggered(hist.bar_obs.orders[id])
          /\ FillsOf(id) = {}
          /\ id \in DOMAIN brokerage.pending_orders

\* the order of a fill of the last call
OrderOf(fill) == hist.bar_obs.orders[fill.order_id]

\* C15: the commission of a fill is quantity x fill_price x fee_rate, with
\* the taker fee for Market and Stop orders and the maker fee for Limit and
\* StopLimit orders.  (SpecBrk)
C15_Commission ==
    hist.bar_obs # None =>
        \A i \in DOMAIN hist.last_fills :
            LET fill == hist.last_fills[i]
                cfg == hist.bar_obs.before.config
                fee_rate == IF OrderOf(fill).order_type \in {"Market", "Stop"}
                            THEN cfg.taker_fee ELSE cfg.maker_fee
            IN  fill.commission =
                    QMul(QMul(fill.quantity, fill.fill_price), fee_rate)

\* C16: with realistic fills disabled every fill has slippage zero and a
\* fill price equal to its base price: the limit price for Limit and
\* StopLimit orders, the close of the bar for Market and Stop orders.
\* (SpecBrk)
C16_NoSlippageWhenDisabled ==
    (hist.bar_obs # None /\ ~hist.bar_obs.before.config.realistic_fills) =>
        \A i \in DOMAIN hist.last_fills :
            LET fill == hist.last_fills[i]
            IN  /\ fill.slippage = Zero
                /\ fill.fill_price =
                      IF OrderOf(fill).order_type \in {"Limit", "StopLimit"}
                      THEN OrderOf(fill).limit_price
                      ELSE hist.bar_obs.bar.close

\* a bar filled a Limit and a Stop order with realistic fills disabled
C16_Witness ==
    /\ BarProcessed
    /\ ~hist.bar_obs.before.config.realistic_fills
    /\ \E i, j \in DOMAIN hist.last_fills :
          /\ OrderOf(hist.last_fills[i]).order_type = "Limit"
          /\ OrderOf(hist.last_fills[j]).order_type = "Stop"

\* C17: every fill has fill_price >= 0.  (SpecBrk)
C17_FillPriceNonNegative ==
    \A i \in DOMAIN hist.last_fills : QGe(hist.last_fills[i].fill_price, Zero)

\* C18: every fill has commission >= 0 and slippage >= 0, also when the
\* configured fees or slippage are negative.  (SpecBrk)
C18_FeesNonNegative ==
    \A i \in DOMAIN hist.last_fills :
        /\ QGe(hist.last_fills[i].commission, Zero)
        /\ QGe(hist.last_fills[i].slippage, Zero)

----------------------------------------------------------------------------
(* Properties of the portfolio's positions and equity curve.               *)

\* C19: a position whose quantity is below 1e-10 in magnitude after a
\* process_fill, Buy or Sell, has quantity, average_price and cost_basis
\* exactly zero.  (SpecPf)
C19_FlatSnap ==
    \A s \in DOMAIN portfolio.positions :
        Position_is_flat(portfolio.positions[s]) =>
            /\ portfolio.positions[s].quantity = Zero
            /\ portfolio.positions[s].average_price = Zero
            /\ portfolio.positions[s].cost_basis = Zero

\* the larger of two rationals
QMaxOf(a, b) == IF QGt(b, a) THEN b ELSE a

RECURSIVE PeakAt(_)
\* the largest of the initial capital and the equities of the first i
\* points of the equity curve
PeakAt(i) ==
    IF i = 0 THEN portfolio.initial_capital
    ELSE QMaxOf(PeakAt(i - 1), portfolio.equity_curve[i].equity)

\* C20: over any sequence of record_equity calls the peak equity never
\* decreases, and every recorded point has drawdown >= 0, equal to the peak
\* at that point minus the equity at that point.  (SpecEq)
C20_MonotonePeak ==
    /\ [](/\ portfolio.peak_equity = PeakAt(Len(portfolio.equity_curve))
          /\ \A i \in DOMAIN portfolio.equity_curve :
                /\ QGe(portfolio.equity_curve[i].drawdown, Zero)
                /\ portfolio.equity_curve[i].drawdown =
                      QSub(PeakAt(i), portfolio.equity_curve[i].equity))
    /\ [][QGe(portfolio'.peak_equity, portfolio.peak_equity)]_vars

\* the equity rose above the initial capital at one point and was below
\* that peak at a later one
C20_Witness ==
    \E i, j \in DOMAIN portfolio.equity_curve :
        /\ i < j
        /\ QGt(portfolio.equity_curve[i].equity, portfolio.initial_capital)
        /\ QLt(portfolio.equity_curve[j].equity, portfolio.equity_curve[i].equity)
        /\ QGt(portfolio.equity_curve[j].drawdown, Zero)

----------------------------------------------------------------------------
(* Properties of round trips and of the trade ledger.                      *)

\* the portfolio after the first k fills of the behaviour
PortfolioAfter(k) ==
    Portfolio_process_fills(Portfolio_new(config.initial_capital),
                            SubSeq(hist.fills, 1, k))

\* the symbol has no position or a flat one
FlatIn(pf, symbol) ==
    symbol \in DOMAIN pf.positions => Position_is_flat(pf.positions[symbol])

\* the last two fills are a Buy and a Sell of the same symbol, quantity and
\* price without commission or slippage, the Buy meeting a flat symbol
RoundTripDone ==
    /\ Len(hist.fills) >= 2
    /\ LET buy == hist.fills[Len(hist.fills) - 1]
           sell == hist.fills[Len(hist.fills)]
       IN  /\ buy.side = "Buy" /\ sell.side = "Sell"
           /\ buy.symbol = sell.symbol
           /\ buy.quantity = sell.quantity
           /\ buy.fill_price = sell.fill_price
           /\ buy.commission = Zero /\ buy.slippage = Zero
           /\ sell.commission = Zero /\ sell.slippage = Zero
           /\ FlatIn(PortfolioAfter(Len(hist.fills) - 2), buy.symbol)

\* C21: from a state in which the symbol is flat, a Buy and then a Sell of
\* the same quantity at the same price without commission or slippage
\* leave the cash as it was before the Buy and the position flat.  (SpecTr)
C21_RoundTrip ==
    RoundTripDone =>
        LET symbol == hist.fills[Len(hist.fills)].symbol
        IN  /\ portfolio.cash = PortfolioAfter(Len(hist.fills) - 2).cash
            /\ Position_is_flat(portfolio.positions[symbol])
            /\ portfolio.positions[symbol].quantity = Zero

\* a round trip that started from a position covered back to zero, with
\* cash away from the initial capital
C21_Witness ==
    /\ RoundTripDone
    /\ hist.fills[Len(hist.fills)].symbol \in
          DOMAIN PortfolioAfter(Len(hist.fills) - 2).positions
    /\ portfolio.cash # portfolio.initial_capital

\* C22: a trade record is closed only by a fill that brings the position
\* of its symbol back to flat: whenever the last fill turned an open trade
\* into a closed one, the position of the symbol is flat after that fill
\* (a Sell for less than the open quantity leaves the trade open).  (SpecTr)
C22_ClosedOnlyWhenFlat ==
    Len(hist.fills) >= 1 =>
        LET before == PortfolioAfter(Len(hist.fills) - 1)
            fill == hist.fills[Len(hist.fills)]
        IN  \A i \in DOMAIN before.trades :
                (/\ before.trades[i].status = "open"
                 /\ portfolio.trades[i].status = "closed")
                    => FlatIn(portfolio, fill.symbol)

\* the closed trades of the ledger, those won and those lost
ClosedTrades ==
    {i \in DOMAIN portfolio.trades : portfolio.trades[i].status = "closed"}
WonTrades == {i \in ClosedTrades : QGt(portfolio.trades[i].pnl, Zero)}
LostTrades == {i \in ClosedTrades : QLt(portfolio.trades[i].pnl, Zero)}

RECURSIVE AbsPnlOf(_)
\* the sum of |pnl| over the trades with index in S
AbsPnlOf(S) ==
    IF S = {} THEN Zero
    ELSE LET i == CHOOSE x \in S : TRUE
         IN  QAdd(QAbs(portfolio.trades[i].pnl), AbsPnlOf(S \ {i}))

\* C30: trade_stats counts only closed trades; its profit factor is the
\* sum of the winning P&L over the sum of the absolute losing P&L when a
\* trade was lost, infinity when trades were won and none lost, 0 when
\* neither; it is 0 when every closed trade is a loser, and winning_trades
\* + losing_trades <= total_trades.  (SpecTr)
C30_TradeStats ==
    hist.stats # None =>
        /\ hist.stats.total_trades = Cardinality(ClosedTrades)
        /\ hist.stats.winning_trades = Cardinality(WonTrades)
        /\ hist.stats.losing_trades = Cardinality(LostTrades)
        /\ hist.stats.winning_trades + hist.stats.losing_trades
              <= hist.stats.total_trades
        /\ hist.stats.profit_factor =
              IF LostTrades # {}
              THEN QDiv(AbsPnlOf(WonTrades), AbsPnlOf(LostTrades))
              ELSE IF WonTrades # {} THEN Infinity ELSE Zero
        /\ (ClosedTrades # {} /\ LostTrades = ClosedTrades) =>
              hist.stats.profit_factor = Zero

\* statistics read from a ledger with a won trade and a lost trade whose
\* P&L differ in size
C30_Witness ==
    /\ hist.stats # None
    /\ WonTrades # {} /\ LostTrades # {}
    /\ hist.stats.profit_factor \notin {Zero, One, Infinity}

----------------------------------------------------------------------------
(* Properties of the enumeration of the data feed.                         *)

\* the arrangement of the indices of bars by ascending timestamp, equal
\* timestamps by ascending index
AscendingOrder(bars) ==
    CHOOSE f \in [DOMAIN bars -> DOMAIN bars] :
        /\ \A i, j \in DOMAIN bars : i # j => f[i] # f[j]
        /\ \A i, j \in DOMAIN bars :
              i < j =>
                \/ bars[f[i]].timestamp < bars[f[j]].timestamp
                \/ /\ bars[f[i]].timestamp = bars[f[j]].timestamp
                   /\ f[i] < f[j]

\* C29: after load_bars(symbol, bars) the successive next_bar calls of the
\* symbol return every loaded bar once, by ascending timestamp and, within
\* a timestamp, in input order, and None from then on.  (SpecNb)
C29_LoadThenEnumerate ==
    \A symbol \in DOMAIN hist.next_obs :
        LET bars == hist.next_obs[symbol].bars
            out == hist.next_obs[symbol].out
        IN  \A k \in DOMAIN out :
                IF k <= Len(bars)
                THEN /\ out[k] # None
                     /\ out[k].symbol = symbol
                     /\ out[k].bar = bars[AscendingOrder(bars)[k]]
                ELSE out[k] = None

\* three bars loaded out of order with two equal timestamps, enumerated to
\* the end and asked twice more
C29_Witness ==
    \E symbol \in DOMAIN hist.next_obs :
        LET bars == hist.next_obs[symbol].bars
            out == hist.next_obs[symbol].out
        IN  /\ Len(bars) = 3
            /\ bars[1].timestamp > bars[2].timestamp
            /\ bars[2].timestamp = bars[3].timestamp
            /\ Len(out) = Len(bars) + 2

----------------------------------------------------------------------------
(* Properties of the engine's runs.                                        *)

\* C23: during and after a run on a fresh or reset engine the equity curve
\* holds one point per processed market event, the i-th with the timestamp
\* of the i-th event; fills and the liquidation add none, so the curve has
\* as many points as the stream has events when run returns.  (SpecReset)
C23_OnePointPerEvent ==
    pc \in {"run", "done"} =>
        /\ Len(portfolio.equity_curve) = bars_processed
        /\ \A i \in DOMAIN portfolio.equity_curve :
              portfolio.equity_curve[i].timestamp =
                  market_events[i].bar.timestamp
        /\ pc = "done" => Len(portfolio.equity_curve) = Len(market_events)

\* a run of two events on a reset engine that bought on a signal and sold
\* in the liquidation
C23_Witness ==
    /\ pc = "done"
    /\ ~hist.fresh
    /\ Len(market_events) = 2
    /\ hist.liquidation # <<>>
    /\ Len(portfolio.equity_curve) = 2

\* the signal map has an entry for the timestamp of the last event
SignalFound == to_rfc3339(hist.obs.event.bar.timestamp) \in DOMAIN signal_map

\* the signal the last event found for its timestamp, 0 when the signal
\* map has no entry for it
SignalSeen ==
    IF SignalFound THEN signal_map[to_rfc3339(hist.obs.event.bar.timestamp)]
    ELSE 0

\* the quantity of the event's symbol held when the signal was looked at
HeldAtSignal ==
    HeldQuantity(Portfolio_process_fills(hist.obs.before,
                                         hist.obs.pending_fills),
                 hist.obs.event.symbol)

\* the last step was process_market_data
EventProcessed == pc = "run" /\ hist.obs # None

\* C24: a signal -1 met with a quantity > 0 makes the engine create one
\* market Sell order for the whole quantity and execute it against the
\* close of the bar: when the equity point of the event is recorded the
\* position is flat and the symbol has no open trade.  (Spec)
C24_SellSignalClosesPosition ==
    (EventProcessed /\ SignalSeen = -1 /\ QGt(HeldAtSignal, Zero)) =>
        LET symbol == hist.obs.event.symbol
            id == hist.obs.orders_before
            fill == hist.obs.signal_fill
        IN  /\ order_manager.next_id = id + 1
            /\ order_manager.orders[id].order_type = "Market"
            /\ order_manager.orders[id].side = "Sell"
            /\ order_manager.orders[id].symbol = symbol
            /\ order_manager.orders[id].quantity = HeldAtSignal
            /\ fill # None
            /\ fill.order_id = id
            /\ fill.side = "Sell"
            /\ fill.quantity = HeldAtSignal
            /\ BasePrice(fill) = hist.obs.event.bar.close
            /\ Position_is_flat(portfolio.positions[symbol])
            /\ portfolio.positions[symbol].quantity = Zero
            /\ FindOpenTrade(portfolio.trades, symbol) = 0
            /\ FindOpenTrade(hist.obs.before.trades, symbol) # 0
            /\ portfolio.trades[FindOpenTrade(hist.obs.before.trades, symbol)].status
                  = "closed"
            /\ portfolio.equity_curve[Len(portfolio.equity_curve)].timestamp
                  = hist.obs.event.bar.timestamp
            /\ portfolio.equity_curve[Len(portfolio.equity_curve)].cash
                  = portfolio.cash

\* a sell signal closed, with slippage, a position bought on an earlier bar
C24_Witness ==
    /\ EventProcessed
    /\ SignalSeen = -1
    /\ QGt(HeldAtSignal, Zero)
    /\ hist.obs.signal_fill # None
    /\ hist.obs.signal_fill.slippage # Zero

\* the signal of the last event asks for nothing: none or 0, +1 with a
\* quantity > 0, -1 with a quantity <= 0
SignalIdle ==
    \/ ~SignalFound
    \/ SignalSeen = 0
    \/ SignalSeen = 1 /\ QGt(HeldAtSignal, Zero)
    \/ SignalSeen = -1 /\ QLe(HeldAtSignal, Zero)

\* C25: an event with no signal or signal 0, with +1 while the quantity is
\* > 0, or with -1 while the quantity is <= 0 creates no order and leaves
\* cash, position quantities and trades as the pending-order fills of the
\* bar left them.  (SpecPending)
C25_IdleSignalFrame ==
    (EventProcessed /\ SignalIdle) =>
        LET after == Portfolio_process_fills(hist.obs.before,
                                             hist.obs.pending_fills)
        IN  /\ order_manager.next_id = hist.obs.orders_before
            /\ hist.obs.signal_fill = None
            /\ portfolio.cash = after.cash
            /\ DOMAIN portfolio.positions = DOMAIN after.positions
            /\ \A s \in DOMAIN portfolio.positions :
                  portfolio.positions[s].quantity = after.positions[s].quantity
            /\ portfolio.trades = after.trades

\* a +1 signal met a quantity > 0 that a pending order's fill had bought on
\* the same bar
C25_Witness ==
    /\ EventProcessed
    /\ SignalFound /\ SignalSeen = 1
    /\ QGt(HeldAtSignal, Zero)
    /\ hist.obs.pending_fills # <<>>

\* the engine is configured without fees and without slippage
ZeroCost ==
    /\ config.maker_fee = Zero
    /\ config.taker_fee = Zero
    /\ config.slippage_pct = Zero

\* C26: in an engine configured with zero fees and zero slippage a +1
\* signal on a flat portfolio buys 0.95 x cash / close units at the close
\* of the bar without slippage, and a later -1 signal sells the quantity
\* held at the close of its bar.  (Spec)
C26_ZeroCostFills ==
    (EventProcessed /\ ZeroCost /\ hist.obs.pending_fills = <<>>) =>
        /\ (/\ SignalSeen = 1
            /\ \A s \in DOMAIN hist.obs.before.positions :
                  Position_is_flat(hist.obs.before.positions[s]))
              => /\ hist.obs.signal_fill # None
                 /\ hist.obs.signal_fill.side = "Buy"
                 /\ hist.obs.signal_fill.quantity =
                       QDiv(QMul(SizingFraction, hist.obs.before.cash),
                            hist.obs.event.bar.close)
                 /\ hist.obs.signal_fill.fill_price = hist.obs.event.bar.close
                 /\ hist.obs.signal_fill.slippage = Zero
        /\ (SignalSeen = -1 /\ QGt(HeldAtSignal, Zero))
              => /\ hist.obs.signal_fill # None
                 /\ hist.obs.signal_fill.quantity = HeldAtSignal
                 /\ hist.obs.signal_fill.fill_price = hist.obs.event.bar.close
                 /\ hist.obs.signal_fill.slippage = Zero

\* C27: when run returns, every position that was long at the end of the
\* stream has been sold in full at the last close of its symbol: no
\* position has quantity > 0 and no long trade is open.  (Spec)
C27_LiquidatedAtEnd ==
    pc = "done" =>
        /\ \A s \in DOMAIN portfolio.positions :
              ~QGt(portfolio.positions[s].quantity, Zero)
        /\ \A i \in DOMAIN portfolio.trades :
              ~(/\ portfolio.trades[i].side = "long"
                /\ portfolio.trades[i].status = "open")
        /\ \A i \in DOMAIN hist.liquidation :
              /\ hist.liquidation[i].side = "Sell"
              /\ BasePrice(hist.liquidation[i]) =
                    current_prices[hist.liquidation[i].symbol]
              /\ hist.liquidation[i].timestamp = current_time
              /\ portfolio.positions[hist.liquidation[i].symbol].quantity = Zero
        /\ \A i, j \in DOMAIN hist.liquidation :
              i # j => hist.liquidation[i].symbol # hist.liquidation[j].symbol

\* a run ended with the positions of two symbols sold in the liquidation
C27_Witness ==
    /\ pc = "done"
    /\ Len(hist.liquidation) = 2

\* C28: a run started with no bars loaded fails with a data error instead
\* of returning metrics.  (Spec)
C28_NoDataIsAnError ==
    (pc = "done" /\ data_feed.data = EmptyMap) =>
        hist.results[Len(hist.results)].outcome = "Err"

\* C35: during an engine run no position has a negative quantity: a sell
\* signal sells the quantity held and the liquidation sells what remains.
\* (Spec)
C35_NeverShort ==
    \A s \in DOMAIN portfolio.positions :
        QGe(portfolio.positions[s].quantity, Zero)

\* a run has returned after a sell signal sold a position and the
\* liquidation sold another
C35_Witness ==
    /\ pc = "done"
    /\ hist.liquidation # <<>>
    /\ Cardinality({i \in DOMAIN portfolio.trades :
                       portfolio.trades[i].status = "closed"})
          > Len(hist.liquidation)
    /\ \A s \in DOMAIN portfolio.positions :
          portfolio.positions[s].quantity = Zero

\* C36: with non-negative fees and slippage settings the cash of the
\* engine's portfolio is never negative, and a signal-driven buy costs at
\* most the cash its order was sized from.  (Spec)
C36_CashNeverNegative ==
    /\ QGe(portfolio.cash, Zero)
    /\ (/\ EventProcessed
        /\ hist.obs.signal_fill # None
        /\ hist.obs.signal_fill.side = "Buy")
          => QLe(QAdd(QAdd(QMul(hist.obs.signal_fill.quantity,
                                hist.obs.signal_fill.fill_price),
                           hist.obs.signal_fill.commission),
                      hist.obs.signal_fill.slippage),
                 hist.obs.sized_cash)

\* C37: the order of every fill the engine applies is marked Filled, and
\* when run returns the order manager's open list is empty.  (Spec)
C37_AppliedFillsMarked ==
    /\ (EventProcessed /\ hist.obs.signal_fill # None)
          => order_manager.orders[hist.obs.signal_fill.order_id].status = "Filled"
    /\ pc = "done"
          => /\ order_manager.open_orders = <<>>
             /\ \A i \in DOMAIN hist.liquidation :
                   order_manager.orders[hist.liquidation[i].order_id].status
                      = "Filled"

\* C38: when run returns, the last point of the equity curve holds the
\* final cash and the final total equity of the portfolio.  (Spec)
C38_LastPointIsFinal ==
    (pc = "done" /\ portfolio.equity_curve # <<>>) =>
        LET last == portfolio.equity_curve[Len(portfolio.equity_curve)]
        IN  /\ last.cash = portfolio.cash
            /\ last.equity = Portfolio_total_equity(portfolio)

\* C39: once the fills have opened and fully closed long trades (every
\* trade is long and closed, every position flat), the pnl fields of the
\* closed trades add up to the portfolio's total realized P&L.  (SpecTr)
C39_LedgerMatchesRealized ==
    (/\ portfolio.trades # <<>>
     /\ \A i \in DOMAIN portfolio.trades :
           /\ portfolio.trades[i].side = "long"
           /\ portfolio.trades[i].status = "closed"
     /\ \A s \in DOMAIN portfolio.positions :
           Position_is_flat(portfolio.positions[s]))
        => SumPnl(portfolio.trades) = portfolio.total_realized_pnl

\* C40: the ledger holds at most one open trade per symbol, and the id of
\* every trade is its 1-based position in the ledger.  (SpecPf)
C40_OneOpenTradePerSymbol ==
    /\ \A i, j \in DOMAIN portfolio.trades :
          (/\ portfolio.trades[i].status = "open"
           /\ portfolio.trades[j].status = "open"
           /\ portfolio.trades[i].symbol = portfolio.trades[j].symbol)
             => i = j
    /\ \A i \in DOMAIN portfolio.trades : portfolio.trades[i].id = i

\* two Buys of one symbol have gone to one open trade and a Buy of the
\* other symbol to a second one
C40_Witness ==
    /\ Len(hist.fills) = MaxFills
    /\ \A i \in DOMAIN hist.fills : hist.fills[i].side = "Buy"
    /\ Len(portfolio.trades) = 2
    /\ portfolio.trades[1].symbol # portfolio.trades[2].symbol

\* the equities of the curve handed to calculate
CurveEquities == [i \in DOMAIN hist.curve |-> hist.curve[i].equity]

\* the declines (equity[i] - equity[j]) / equity[i] of the curve, i <= j
Declines ==
    {QDiv(QSub(CurveEquities[p[1]], CurveEquities[p[2]]), CurveEquities[p[1]]) :
        p \in {q \in (DOMAIN hist.curve) \X (DOMAIN hist.curve) : q[1] <= q[2]}}

\* C31: for an equity series of at least 2 positive points the reported
\* max drawdown is the largest peak-to-trough decline of the series, the
\* maximum over i <= j of (equity[i] - equity[j]) / equity[i], as a
\* percentage.  (SpecMx)
C31_MaxDrawdownIsLargestDecline ==
    (hist.metrics # None /\ Len(hist.curve) >= 2) =>
        /\ \E d \in Declines :
              hist.metrics.result.max_drawdown = QMul(d, QInt(100))
        /\ \A d \in Declines :
              QGe(hist.metrics.result.max_drawdown, QMul(d, QInt(100)))

\* the series [100, 110, 90, 95] with its drawdown of 200/11 percent
C31_Witness ==
    /\ hist.metrics # None
    /\ CurveEquities = <<QInt(100), QInt(110), QInt(90), QInt(95)>>
    /\ hist.metrics.result.max_drawdown = <<200, 11>>
    /\ hist.metrics.result.total_return = QInt(-5)

\* C32: calculate on a curve of fewer than 2 points returns a result whose
\* every metric is zero, whatever trade statistics it is handed.  (SpecMx)
C32_ShortCurveAllZero ==
    (hist.metrics # None /\ Len(hist.curve) < 2) =>
        /\ DOMAIN hist.metrics.result = DOMAIN BacktestMetrics_default
        /\ \A f \in DOMAIN hist.metrics.result
                    \ {"max_drawdown_duration", "trade_stats", "equity_curve",
                       "timestamps"} :
              hist.metrics.result[f] = Zero
        /\ hist.metrics.result.max_drawdown_duration = 0
        /\ hist.metrics.result.equity_curve = <<>>
        /\ hist.metrics.result.timestamps = <<>>
        /\ \A f \in {"total_trades", "winning_trades", "losing_trades"} :
              hist.metrics.result.trade_stats[f] = 0
        /\ \A f \in DOMAIN hist.metrics.result.trade_stats
                    \ {"total_trades", "winning_trades", "losing_trades"} :
              hist.metrics.result.trade_stats[f] = Zero

\* calculate was handed one point and the statistics of a winning trade
C32_Witness ==
    /\ hist.metrics # None
    /\ Len(hist.curve) = 1
    /\ hist.metrics.trade_stats.total_trades = 1

\* C33: an integer timestamp t is taken for milliseconds, and divided by
\* 1000, if and only if t >= 10^10, in both parsers and at t = 10^10.
\* (SpecTs)
C33_MillisFromTenBillion ==
    hist.parsed # None =>
        hist.parsed.secs =
            IF WideGe(hist.parsed.ts, MillisThreshold)
            THEN WideDivThousand(hist.parsed.ts)
            ELSE hist.parsed.ts

\* C34: the result a parallel worker returns for a parameter combination
\* equals the result of running that combination alone.  (SpecOpt)
C34_ParallelAsAlone ==
    \A w \in OptParallel :
        (/\ hist.opt[w].result # None
         /\ hist.opt[0].result # None
         /\ hist.opt[w].combination = hist.opt[0].combination)
            => hist.opt[w].result = hist.opt[0].result

====
